---- MODULE Spec2Model ----
(***************************************************************************)
(* State-machine model of the InfoTrade marketplace contracts.             *)
(*                                                                         *)
(* The repository holds three variants of the InfoTrade contract:          *)
(*   "escrow" : src/contracts/InfoTrade.sol (request / grant / deny with   *)
(*              the payment held by the contract and a 2% platform fee),   *)
(*   "plain"  : src/contracts/StringAddressUtils.sol:125-304 (purchase     *)
(*              with a plaintext price that is forwarded to the owner),    *)
(*   "enc"    : src/unnamed/part_006:7-192 (purchase with an encrypted     *)
(*              price, no payment check).                                  *)
(* One deployment is one variant: Init chooses it and it never changes.    *)
(* The InfoEncoder contract (StringAddressUtils.sol:1-118) is modelled     *)
(* separately, as variant "encoder": its functions are pure, so its state  *)
(* is the inputs of a run and the latest calls with their return values.   *)
(* The frontend's XOR obfuscation (encryptByKey in src/unnamed/part_001,   *)
(* decryptByKey in InfoBrowse.tsx and InfoList.tsx) is variant "frontend": *)
(* its state is the content and key of a run and what the calls returned.  *)
(*                                                                         *)
(* A transaction that reverts leaves no trace in the contract's state, so  *)
(* every external function f is modelled by an operator fRevert(...) that  *)
(* evaluates f's require chain in source order and yields the revert       *)
(* reason (OK when none fires) and by an action f(...) that is enabled     *)
(* exactly when fRevert(...) = OK and applies all of f's effects.          *)
(* Gas is not modelled (gas price 0); of the block timestamps only an       *)
(* item's createdAt is kept.                                               *)
(* Every call to FHE.fromExternal is taken to yield a fresh handle, which  *)
(* is identified with the item it is stored in.                            *)
(***************************************************************************)
EXTENDS Integers, Sequences, FiniteSets, TLC

\* ------------------------------------------------------------------ bounds
MaxItems == 2        \* items created in a run
MaxRequests == 2     \* successful requestPurchase / purchaseInfo calls in a run
MaxCalls == 4        \* creating and requesting calls together in a run
InitialFunds == 150  \* wei each account starts with
MaxPrice == 110      \* largest price of the fee-rounding specification
MaxStrLen == 1       \* InfoEncoder: longest string argument, in bytes
MaxBatch == 2        \* InfoEncoder: longest array passed to batchEncodeStrings
MaxDepth == 2        \* escrow: nested calls suspended in a transfer at one time
MaxDataLen == 2      \* frontend: longest content string built from DataChars

\* --------------------------------------------------------------- constants
PLATFORM_FEE_PERCENT == 2

Variants == {"escrow", "plain", "enc"}
ZeroAddress == "0x0"
THIS == "this"
Deployer == "deployer"
Users == {Deployer, "alice", "bob"}
Sellers == {Deployer, "alice"}   \* the accounts that create items
Prices == {50}                   \* price argument of uploadInfo / createInfo
NewPrices == {51}                \* price argument of updatePrice
MsgValues == {50, 51}            \* msg.value of requestPurchase / purchaseInfo
MsgValuesEnc == {0, 50}          \* msg.value of purchaseInfo, encrypted-price contract
Titles == {"T"}
Infos == {"X"}
Timestamps == {1000}             \* block.timestamp of a creating call
InfoIds == 0..MaxItems
RejectingSets == {{}} \cup {{a} : a \in Users}   \* the sets rejectsEth is drawn from
FeePrices == 1..MaxPrice         \* price argument of uploadInfo, fee-rounding specification
OK == "ok"

\* InfoEncoder: keccak256 and address are scaled down from 256 and 160 bits.
HashBits == 6
AddressBits == 3
Chars == {97, 98}                \* the bytes strings are made of ("a", "b")
RECURSIVE SeqsUpTo(_, _)
SeqsUpTo(S, n) ==                \* the sequences over S of length at most n
    IF n = 0 THEN {<<>>}
    ELSE LET shorter == SeqsUpTo(S, n - 1) IN
         shorter \cup {Append(q, x) : q \in shorter, x \in S}
Strings == SeqsUpTo(Chars, MaxStrLen)
StringArrays == SeqsUpTo(Strings, MaxBatch)
Addresses == 0..(2^AddressBits - 1)

VARIABLES
    variant,               \* which InfoTrade contract is deployed
    nextInfoId,            \* uint256 nextInfoId
    infoItems,             \* mapping(uint256 => InfoItem)
    ethBalance,            \* ETH held by each account and by the contract
    acl,                   \* FHE access-control list of each item's eaddress handle
    aclPrice,              \* FHE access-control list of each item's current euint64 price handle
    events,                \* the events emitted so far (InfoUpdated and
                           \* PlatformFeeWithdrawn are not recorded)
    owner,                 \* escrow: address owner
    platformBalance,       \* escrow: uint256 platformBalance
    purchaseRequests,      \* escrow: mapping(uint256 => mapping(address => PurchaseRequest))
    purchaseRequestsList,  \* escrow: mapping(uint256 => address[])
    sellerInfos,           \* escrow: mapping(address => uint256[])
    buyerRequests,         \* escrow: mapping(address => uint256[])
    paid,                  \* escrow: msg.value of the latest requestPurchase of (item, buyer)
    userInfoItems,         \* purchase contracts: mapping(address => uint256[])
    userPurchases,         \* purchase contracts: mapping(address => uint256[])
    rejectsEth,            \* environment: the accounts that are contracts whose
                           \* receive reverts (an ETH transfer to them fails)
    fheDown,               \* environment: calls into the FHE library revert
    strings,               \* InfoEncoder: the strings the calls of a run are made with
    encoderCalls,          \* InfoEncoder: the latest two calls, each with its return value
    callStack,             \* escrow: the calls suspended in an ETH transfer whose
                           \* recipient is running, innermost last
    data,                  \* frontend: the content string (UTF-16 code units)
    keyAddress,            \* frontend: the key address (characters)
    encrypted,             \* frontend: outcome of encryptByKey(data, keyAddress)
    decrypted              \* frontend: outcome of decryptByKey(encrypted, keyAddress)

vars == <<variant, nextInfoId, infoItems, ethBalance, acl, aclPrice, events, owner,
          platformBalance, purchaseRequests, purchaseRequestsList, sellerInfos,
          buyerRequests, paid, userInfoItems, userPurchases, rejectsEth, fheDown,
          strings, encoderCalls, callStack, data, keyAddress, encrypted, decrypted>>

envVars == <<rejectsEth, fheDown>>
encoderVars == <<strings, encoderCalls>>
frontendVars == <<data, keyAddress, encrypted, decrypted>>
pureVars == <<encoderVars, frontendVars>>
escrowVars == <<owner, platformBalance, purchaseRequests, purchaseRequestsList,
                sellerInfos, buyerRequests, paid>>
purchaseVars == <<userInfoItems, userPurchases, aclPrice>>

\* ----------------------------------------------------------------- helpers
\* First failing require of a chain <<condition, reason>>, or OK.
RECURSIVE FirstFailure(_)
FirstFailure(checks) ==
    IF checks = <<>> THEN OK
    ELSE IF ~checks[1][1] THEN checks[1][2]
    ELSE FirstFailure(Tail(checks))

RECURSIVE SumLen(_, _)
SumLen(f, S) ==
    IF S = {} THEN 0
    ELSE LET x == CHOOSE y \in S : TRUE IN Len(f[x]) + SumLen(f, S \ {x})

\* address.transfer / call{value}: moves amount from one account to another.
Transfer(bal, from, to, amount) ==
    IF from = to THEN bal
    ELSE [bal EXCEPT ![from] = @ - amount, ![to] = @ + amount]

\* address.transfer / call{value} succeeds: the payer holds the amount and
\* the recipient accepts ETH.
CanTransfer(from, to, amount) ==
    ethBalance[from] >= amount /\ to \notin rejectsEth

\* ===================================================================
\* Escrow contract: src/contracts/InfoTrade.sol
\* ===================================================================
EmptyItem ==
    [encryptedInfo |-> 0, seller |-> ZeroAddress, price |-> 0, isActive |-> FALSE,
     createdAt |-> 0]

EmptyRequest ==
    [infoId |-> 0, buyer |-> ZeroAddress, isPending |-> FALSE, isApproved |-> FALSE]

\* modifier infoExists
infoExists(infoId) ==
    infoId < nextInfoId /\ infoItems[infoId].seller # ZeroAddress

\* modifier infoActive
infoActive(infoId) == infoItems[infoId].isActive

\* modifier onlyInfoSeller
onlyInfoSeller(sender, infoId) == infoItems[infoId].seller = sender

\* modifier onlyOwner
onlyOwner(sender) == sender = owner

\* Mutant: the fee taken per mille instead of per cent.
Fee_PerMille(price) == (price * PLATFORM_FEE_PERCENT) \div 1000

\* Mutant: the fee rounded up instead of truncated.
Fee_RoundedUp(price) == (price * PLATFORM_FEE_PERCENT + 99) \div 100

\* uint256 fee = (item.price * PLATFORM_FEE_PERCENT) / 100
Fee(price) == (price * PLATFORM_FEE_PERCENT) \div 100

\* uint256 sellerAmount = item.price - fee
SellerAmount(price) == price - Fee(price)

\* The amount denyAccess sends back to the buyer.
Refund(infoId, buyer) == infoItems[infoId].price

\* Number of successful requestPurchase / purchaseInfo calls so far.
TotalRequests == SumLen(purchaseRequestsList, InfoIds) + SumLen(userPurchases, Users)

\* The run may still create an item / file a request.
MayCreate == nextInfoId <= MaxItems /\ (nextInfoId - 1) + TotalRequests < MaxCalls
MayRequest == TotalRequests < MaxRequests /\ (nextInfoId - 1) + TotalRequests < MaxCalls

uploadInfoRevert(sender, price) ==
    FirstFailure(<<
        <<price > 0, "Price must be greater than 0">>,
        <<~fheDown, "FHE call failed">> >>)

uploadInfo(sender, price) ==
    /\ variant = "escrow"
    /\ uploadInfoRevert(sender, price) = OK
    /\ MayCreate
    /\ LET infoId == nextInfoId IN
       /\ nextInfoId' = nextInfoId + 1
       /\ \E ts \in Timestamps :
              infoItems' = [infoItems EXCEPT ![infoId] =
                  [encryptedInfo |-> infoId, seller |-> sender, price |-> price,
                   isActive |-> TRUE, createdAt |-> ts]]
       /\ acl' = [acl EXCEPT ![infoId] = @ \cup {THIS, sender}]
       /\ sellerInfos' = [sellerInfos EXCEPT ![sender] = Append(@, infoId)]
       /\ events' = events \cup {<<"InfoUploaded", infoId, sender, price>>}
    /\ UNCHANGED <<variant, envVars, pureVars, callStack, ethBalance, owner, platformBalance, purchaseRequests,
                   purchaseRequestsList, buyerRequests, paid, purchaseVars>>

\* Mutant: requestPurchase without the "Cannot purchase own info" check.
requestPurchaseRevert_NoSelfCheck(sender, infoId, value) ==
    FirstFailure(<<
        <<infoExists(infoId), "Info does not exist">>,
        <<infoActive(infoId), "Info is not active">>,
        <<value >= infoItems[infoId].price, "Insufficient payment">>,
        <<~purchaseRequests[infoId][sender].isPending, "Purchase already pending">>,
        <<~purchaseRequests[infoId][sender].isApproved, "Already have access">> >>)

\* Mutant: requestPurchase without the "Already have access" check.
requestPurchaseRevert_NoAccessCheck(sender, infoId, value) ==
    FirstFailure(<<
        <<infoExists(infoId), "Info does not exist">>,
        <<infoActive(infoId), "Info is not active">>,
        <<sender # infoItems[infoId].seller, "Cannot purchase own info">>,
        <<value >= infoItems[infoId].price, "Insufficient payment">>,
        <<~purchaseRequests[infoId][sender].isPending, "Purchase already pending">> >>)

\* Mutant: requestPurchase without the "Purchase already pending" check.
requestPurchaseRevert_NoPendingCheck(sender, infoId, value) ==
    FirstFailure(<<
        <<infoExists(infoId), "Info does not exist">>,
        <<infoActive(infoId), "Info is not active">>,
        <<sender # infoItems[infoId].seller, "Cannot purchase own info">>,
        <<value >= infoItems[infoId].price, "Insufficient payment">>,
        <<~purchaseRequests[infoId][sender].isApproved, "Already have access">> >>)

requestPurchaseRevert(sender, infoId, value) ==
    FirstFailure(<<
        <<infoExists(infoId), "Info does not exist">>,
        <<infoActive(infoId), "Info is not active">>,
        <<sender # infoItems[infoId].seller, "Cannot purchase own info">>,
        <<value >= infoItems[infoId].price, "Insufficient payment">>,
        <<~purchaseRequests[infoId][sender].isPending, "Purchase already pending">>,
        <<~purchaseRequests[infoId][sender].isApproved, "Already have access">> >>)

requestPurchase(sender, infoId, value) ==
    /\ variant = "escrow"
    /\ value <= ethBalance[sender]
    /\ requestPurchaseRevert(sender, infoId, value) = OK
    /\ MayRequest
    /\ ethBalance' = Transfer(ethBalance, sender, THIS, value)
    /\ purchaseRequests' = [purchaseRequests EXCEPT ![infoId][sender] =
           [infoId |-> infoId, buyer |-> sender, isPending |-> TRUE,
            isApproved |-> FALSE]]
    /\ purchaseRequestsList' = [purchaseRequestsList EXCEPT ![infoId] = Append(@, sender)]
    /\ buyerRequests' = [buyerRequests EXCEPT ![sender] = Append(@, infoId)]
    /\ paid' = [paid EXCEPT ![infoId][sender] = value]
    /\ events' = events \cup {<<"PurchaseRequested", infoId, sender>>}
    /\ UNCHANGED <<variant, envVars, pureVars, callStack, nextInfoId, infoItems, acl, owner, platformBalance,
                   sellerInfos, purchaseVars>>

\* Mutant: grantAccess without the pending check.
grantAccessRevert_NoPendingCheck(sender, infoId, buyer) ==
    FirstFailure(<<
        <<onlyInfoSeller(sender, infoId), "Only info seller can call this function">>,
        <<infoExists(infoId), "Info does not exist">>,
        <<~fheDown, "FHE call failed">>,
        <<CanTransfer(THIS, sender, SellerAmount(infoItems[infoId].price)),
          "transfer failed">> >>)

\* Mutant: grantAccess without the onlyInfoSeller modifier.
grantAccessRevert_NoSellerCheck(sender, infoId, buyer) ==
    FirstFailure(<<
        <<infoExists(infoId), "Info does not exist">>,
        <<purchaseRequests[infoId][buyer].isPending, "No pending request from this buyer">>,
        <<~fheDown, "FHE call failed">>,
        <<CanTransfer(THIS, sender, SellerAmount(infoItems[infoId].price)),
          "transfer failed">> >>)

\* Mutant: grantAccess that requires the item to be active.
grantAccessRevert_NeedsActive(sender, infoId, buyer) ==
    FirstFailure(<<
        <<onlyInfoSeller(sender, infoId), "Only info seller can call this function">>,
        <<infoExists(infoId), "Info does not exist">>,
        <<infoActive(infoId), "Info is not active">>,
        <<purchaseRequests[infoId][buyer].isPending, "No pending request from this buyer">>,
        <<~fheDown, "FHE call failed">>,
        <<CanTransfer(THIS, sender, SellerAmount(infoItems[infoId].price)),
          "transfer failed">> >>)

grantAccessRevert(sender, infoId, buyer) ==
    FirstFailure(<<
        <<onlyInfoSeller(sender, infoId), "Only info seller can call this function">>,
        <<infoExists(infoId), "Info does not exist">>,
        <<purchaseRequests[infoId][buyer].isPending, "No pending request from this buyer">>,
        <<~fheDown, "FHE call failed">>,
        <<CanTransfer(THIS, sender, SellerAmount(infoItems[infoId].price)),
          "transfer failed">> >>)

\* Mutant: grantAccess that pays the seller with an unchecked send: when the
\* transfer fails the call goes on and keeps its state changes.
grantAccess_UncheckedSend(sender, infoId, buyer) ==
    /\ variant = "escrow"
    /\ grantAccessRevert(sender, infoId, buyer) \in {OK, "transfer failed"}
    /\ LET item == infoItems[infoId]
           fee == Fee(item.price)
           sellerAmount == SellerAmount(item.price)
       IN
       /\ purchaseRequests' = [purchaseRequests EXCEPT
              ![infoId][buyer].isPending = FALSE,
              ![infoId][buyer].isApproved = TRUE]
       /\ acl' = [acl EXCEPT ![item.encryptedInfo] = @ \cup {buyer}]
       /\ platformBalance' = platformBalance + fee
       /\ ethBalance' = IF CanTransfer(THIS, sender, sellerAmount)
                        THEN Transfer(ethBalance, THIS, sender, sellerAmount)
                        ELSE ethBalance
       /\ events' = events \cup {<<"AccessGranted", infoId, buyer, sender>>}
    /\ UNCHANGED <<variant, envVars, pureVars, callStack, nextInfoId, infoItems, owner, purchaseRequestsList,
                   sellerInfos, buyerRequests, paid, purchaseVars>>

\* Mutant: grantAccess that sets isApproved and forgets to clear isPending.
grantAccess_KeepsPending(sender, infoId, buyer) ==
    /\ variant = "escrow"
    /\ grantAccessRevert(sender, infoId, buyer) = OK
    /\ LET item == infoItems[infoId]
           fee == Fee(item.price)
           sellerAmount == SellerAmount(item.price)
       IN
       /\ purchaseRequests' = [purchaseRequests EXCEPT
              ![infoId][buyer].isApproved = TRUE]
       /\ acl' = [acl EXCEPT ![item.encryptedInfo] = @ \cup {buyer}]
       /\ platformBalance' = platformBalance + fee
       /\ ethBalance' = Transfer(ethBalance, THIS, sender, sellerAmount)
       /\ events' = events \cup {<<"AccessGranted", infoId, buyer, sender>>}
    /\ UNCHANGED <<variant, envVars, pureVars, callStack, nextInfoId, infoItems, owner, purchaseRequestsList,
                   sellerInfos, buyerRequests, paid, purchaseVars>>

grantAccess(sender, infoId, buyer) ==
    /\ variant = "escrow"
    /\ grantAccessRevert(sender, infoId, buyer) = OK
    /\ LET item == infoItems[infoId]
           fee == Fee(item.price)
           sellerAmount == SellerAmount(item.price)
       IN
       /\ purchaseRequests' = [purchaseRequests EXCEPT
              ![infoId][buyer].isPending = FALSE,
              ![infoId][buyer].isApproved = TRUE]
       /\ acl' = [acl EXCEPT ![item.encryptedInfo] = @ \cup {buyer}]
       /\ platformBalance' = platformBalance + fee
       /\ ethBalance' = Transfer(ethBalance, THIS, sender, sellerAmount)
       /\ events' = events \cup {<<"AccessGranted", infoId, buyer, sender>>}
    /\ UNCHANGED <<variant, envVars, pureVars, callStack, nextInfoId, infoItems, owner, purchaseRequestsList,
                   sellerInfos, buyerRequests, paid, purchaseVars>>

\* Mutant: denyAccess without the pending check.
denyAccessRevert_NoPendingCheck(sender, infoId, buyer) ==
    FirstFailure(<<
        <<onlyInfoSeller(sender, infoId), "Only info seller can call this function">>,
        <<infoExists(infoId), "Info does not exist">>,
        <<CanTransfer(THIS, buyer, Refund(infoId, buyer)), "transfer failed">> >>)

denyAccessRevert(sender, infoId, buyer) ==
    FirstFailure(<<
        <<onlyInfoSeller(sender, infoId), "Only info seller can call this function">>,
        <<infoExists(infoId), "Info does not exist">>,
        <<purchaseRequests[infoId][buyer].isPending, "No pending request from this buyer">>,
        <<CanTransfer(THIS, buyer, Refund(infoId, buyer)), "transfer failed">> >>)

\* Mutant: denyAccess that marks the request approved, as grantAccess does.
denyAccess_SetsApproved(sender, infoId, buyer) ==
    /\ variant = "escrow"
    /\ denyAccessRevert(sender, infoId, buyer) = OK
    /\ purchaseRequests' = [purchaseRequests EXCEPT
           ![infoId][buyer].isPending = FALSE,
           ![infoId][buyer].isApproved = TRUE]
    /\ ethBalance' = Transfer(ethBalance, THIS, buyer, Refund(infoId, buyer))
    /\ events' = events \cup {<<"AccessDenied", infoId, buyer, sender>>}
    /\ UNCHANGED <<variant, envVars, pureVars, callStack, nextInfoId, infoItems, acl, owner, platformBalance,
                   purchaseRequestsList, sellerInfos, buyerRequests, paid, purchaseVars>>

\* Mutant: denyAccess that resolves the request without the refund.
denyAccess_NoRefund(sender, infoId, buyer) ==
    /\ variant = "escrow"
    /\ denyAccessRevert(sender, infoId, buyer) = OK
    /\ purchaseRequests' = [purchaseRequests EXCEPT
           ![infoId][buyer].isPending = FALSE,
           ![infoId][buyer].isApproved = FALSE]
    /\ ethBalance' = ethBalance
    /\ events' = events \cup {<<"AccessDenied", infoId, buyer, sender>>}
    /\ UNCHANGED <<variant, envVars, pureVars, callStack, nextInfoId, infoItems, acl, owner,
                   platformBalance, purchaseRequestsList, sellerInfos, buyerRequests,
                   paid, purchaseVars>>

denyAccess(sender, infoId, buyer) ==
    /\ variant = "escrow"
    /\ denyAccessRevert(sender, infoId, buyer) = OK
    /\ purchaseRequests' = [purchaseRequests EXCEPT
           ![infoId][buyer].isPending = FALSE,
           ![infoId][buyer].isApproved = FALSE]
    /\ ethBalance' = Transfer(ethBalance, THIS, buyer, Refund(infoId, buyer))
    /\ events' = events \cup {<<"AccessDenied", infoId, buyer, sender>>}
    /\ UNCHANGED <<variant, envVars, pureVars, callStack, nextInfoId, infoItems, acl, owner, platformBalance,
                   purchaseRequestsList, sellerInfos, buyerRequests, paid, purchaseVars>>

deactivateInfoRevert(sender, infoId) ==
    FirstFailure(<<
        <<onlyInfoSeller(sender, infoId), "Only info seller can call this function">>,
        <<infoExists(infoId), "Info does not exist">> >>)

\* Mutant: deactivateInfo that also drops the item's pending requests.
deactivateInfo_CancelsRequests(sender, infoId) ==
    /\ variant = "escrow"
    /\ deactivateInfoRevert(sender, infoId) = OK
    /\ infoItems' = [infoItems EXCEPT ![infoId].isActive = FALSE]
    /\ purchaseRequests' = [purchaseRequests EXCEPT ![infoId] =
           [b \in Users |-> [@[b] EXCEPT !.isPending = FALSE]]]
    /\ events' = events \cup {<<"InfoDeactivated", infoId, sender>>}
    /\ UNCHANGED <<variant, envVars, pureVars, callStack, nextInfoId, ethBalance, acl, owner, platformBalance,
                   purchaseRequestsList, sellerInfos, buyerRequests, paid, purchaseVars>>

\* Mutant: deactivateInfo that toggles isActive.
deactivateInfo_Toggles(sender, infoId) ==
    /\ variant = "escrow"
    /\ deactivateInfoRevert(sender, infoId) = OK
    /\ infoItems' = [infoItems EXCEPT ![infoId].isActive = ~@]
    /\ events' = events \cup {<<"InfoDeactivated", infoId, sender>>}
    /\ UNCHANGED <<variant, envVars, pureVars, callStack, nextInfoId, ethBalance, acl, escrowVars, purchaseVars>>

deactivateInfo(sender, infoId) ==
    /\ variant = "escrow"
    /\ deactivateInfoRevert(sender, infoId) = OK
    /\ infoItems' = [infoItems EXCEPT ![infoId].isActive = FALSE]
    /\ events' = events \cup {<<"InfoDeactivated", infoId, sender>>}
    /\ UNCHANGED <<variant, envVars, pureVars, callStack, nextInfoId, ethBalance, acl, escrowVars, purchaseVars>>

\* Mutant: withdrawPlatformFees without the onlyOwner modifier.
withdrawPlatformFeesRevert_NoOwnerCheck(sender) ==
    FirstFailure(<<
        <<platformBalance > 0, "No fees to withdraw">>,
        <<CanTransfer(THIS, owner, platformBalance), "transfer failed">> >>)

withdrawPlatformFeesRevert(sender) ==
    FirstFailure(<<
        <<onlyOwner(sender), "Only owner can call this function">>,
        <<platformBalance > 0, "No fees to withdraw">>,
        <<CanTransfer(THIS, owner, platformBalance), "transfer failed">> >>)

\* Mutant: withdrawPlatformFees that does not zero platformBalance.
withdrawPlatformFees_KeepsBalance(sender) ==
    /\ variant = "escrow"
    /\ withdrawPlatformFeesRevert(sender) = OK
    /\ LET amount == platformBalance IN
       /\ platformBalance' = platformBalance
       /\ ethBalance' = Transfer(ethBalance, THIS, owner, amount)
    /\ UNCHANGED <<variant, envVars, pureVars, callStack, nextInfoId, infoItems, acl, events, owner,
                   purchaseRequests, purchaseRequestsList, sellerInfos, buyerRequests,
                   paid, purchaseVars>>

withdrawPlatformFees(sender) ==
    /\ variant = "escrow"
    /\ withdrawPlatformFeesRevert(sender) = OK
    /\ LET amount == platformBalance IN
       /\ platformBalance' = 0
       /\ ethBalance' = Transfer(ethBalance, THIS, owner, amount)
    /\ UNCHANGED <<variant, envVars, pureVars, callStack, nextInfoId, infoItems, acl, events, owner, purchaseRequests,
                   purchaseRequestsList, sellerInfos, buyerRequests, paid, purchaseVars>>

\* view: getEncryptedInfo
getEncryptedInfoRevert(sender, infoId) ==
    FirstFailure(<< <<infoExists(infoId), "Info does not exist">> >>)

getEncryptedInfo(sender, infoId) == infoItems[infoId].encryptedInfo

\* view: getPendingRequests
getPendingRequestsRevert(sender, infoId) ==
    FirstFailure(<<
        <<onlyInfoSeller(sender, infoId), "Only info seller can call this function">> >>)

\* The entries of purchaseRequestsList[infoId] whose request is pending, in
\* list order (the two loops of the function).
getPendingRequests(sender, infoId) ==
    SelectSeq(purchaseRequestsList[infoId],
              LAMBDA b : purchaseRequests[infoId][b].isPending)

\* view: getPurchaseRequestStatus
isPending(infoId, buyer) == purchaseRequests[infoId][buyer].isPending
isApproved(infoId, buyer) == purchaseRequests[infoId][buyer].isApproved

\* ===================================================================
\* Purchase contracts: src/contracts/StringAddressUtils.sol:125-304
\* (plaintext price, suffix _plain) and src/unnamed/part_006:7-192
\* (encrypted price, suffix _enc). Both keep hasPurchased and hasAccess
\* inside the item; a mapping(address => bool) is the set of its true keys.
\* In the encrypted-price contract the price field stands for the euint64
\* handle (written as the cleartext it encrypts) and aclPrice for the
\* access-control list of that handle.
\* ===================================================================
EmptyPurchaseItem ==
    [title |-> "", info |-> "", encryptedOwner |-> 0, price |-> 0, isActive |-> FALSE,
     owner |-> ZeroAddress, createdAt |-> 0, hasPurchased |-> {}, hasAccess |-> {}]

\* require(infoId < nextInfoId && infoId > 0, "Invalid info ID")
validInfoId(infoId) == infoId < nextInfoId /\ infoId > 0

createInfoRevert_plain(sender, title, info, price) ==
    FirstFailure(<<
        <<title # "", "Title cannot be empty">>,
        <<info # "", "Info cannot be empty">>,
        <<price > 0, "Price must be greater than 0">>,
        <<~fheDown, "FHE call failed">> >>)

\* Mutant: createInfo that does not set hasAccess[msg.sender].
createInfo_plain_NoOwnerAccess(sender, title, info, price) ==
    /\ variant = "plain"
    /\ createInfoRevert_plain(sender, title, info, price) = OK
    /\ MayCreate
    /\ LET infoId == nextInfoId IN
       /\ nextInfoId' = nextInfoId + 1
       /\ \E ts \in Timestamps :
              infoItems' = [infoItems EXCEPT ![infoId] =
                  [title |-> title, info |-> info, encryptedOwner |-> infoId,
                   price |-> price, isActive |-> TRUE, owner |-> sender,
                   createdAt |-> ts, hasPurchased |-> {}, hasAccess |-> {}]]
       /\ acl' = [acl EXCEPT ![infoId] = @ \cup {THIS, sender}]
       /\ userInfoItems' = [userInfoItems EXCEPT ![sender] = Append(@, infoId)]
       /\ events' = events \cup {<<"InfoCreated", infoId, sender, title>>}
    /\ UNCHANGED <<variant, envVars, pureVars, callStack, ethBalance, aclPrice, userPurchases, escrowVars>>

createInfo_plain(sender, title, info, price) ==
    /\ variant = "plain"
    /\ createInfoRevert_plain(sender, title, info, price) = OK
    /\ MayCreate
    /\ LET infoId == nextInfoId IN
       /\ nextInfoId' = nextInfoId + 1
       /\ \E ts \in Timestamps :
              infoItems' = [infoItems EXCEPT ![infoId] =
                  [title |-> title, info |-> info, encryptedOwner |-> infoId,
                   price |-> price, isActive |-> TRUE, owner |-> sender,
                   createdAt |-> ts, hasPurchased |-> {}, hasAccess |-> {sender}]]
       /\ acl' = [acl EXCEPT ![infoId] = @ \cup {THIS, sender}]
       /\ userInfoItems' = [userInfoItems EXCEPT ![sender] = Append(@, infoId)]
       /\ events' = events \cup {<<"InfoCreated", infoId, sender, title>>}
    /\ UNCHANGED <<variant, envVars, pureVars, callStack, ethBalance, aclPrice, userPurchases, escrowVars>>

\* Mutant: purchaseInfo without the payment check.
purchaseInfoRevert_plain_NoPaymentCheck(sender, infoId, value) ==
    FirstFailure(<<
        <<validInfoId(infoId), "Invalid info ID">>,
        <<infoItems[infoId].isActive, "Info is not active">>,
        <<infoItems[infoId].owner # sender, "Cannot purchase your own info">>,
        <<sender \notin infoItems[infoId].hasPurchased, "Already purchased">>,
        <<infoItems[infoId].owner \notin rejectsEth, "Payment transfer failed">>,
        <<~fheDown, "FHE call failed">> >>)

purchaseInfoRevert_plain(sender, infoId, value) ==
    FirstFailure(<<
        <<validInfoId(infoId), "Invalid info ID">>,
        <<infoItems[infoId].isActive, "Info is not active">>,
        <<infoItems[infoId].owner # sender, "Cannot purchase your own info">>,
        <<sender \notin infoItems[infoId].hasPurchased, "Already purchased">>,
        <<value >= infoItems[infoId].price, "Insufficient payment">>,
        <<infoItems[infoId].owner \notin rejectsEth, "Payment transfer failed">>,
        <<~fheDown, "FHE call failed">> >>)

\* Mutant: purchaseInfo that sets hasAccess together with hasPurchased.
purchaseInfo_plain_GivesAccess(sender, infoId, value) ==
    /\ variant = "plain"
    /\ value <= ethBalance[sender]
    /\ purchaseInfoRevert_plain(sender, infoId, value) = OK
    /\ MayRequest
    /\ LET seller == infoItems[infoId].owner IN
       /\ infoItems' = [infoItems EXCEPT ![infoId].hasPurchased = @ \cup {sender},
                                         ![infoId].hasAccess = @ \cup {sender}]
       /\ userPurchases' = [userPurchases EXCEPT ![sender] = Append(@, infoId)]
       /\ ethBalance' = Transfer(ethBalance, sender, seller, value)
       /\ acl' = [acl EXCEPT ![infoItems[infoId].encryptedOwner] = @ \cup {sender}]
       /\ events' = events \cup {<<"InfoPurchased", infoId, sender, seller>>}
    /\ UNCHANGED <<variant, envVars, pureVars, callStack, nextInfoId, aclPrice, userInfoItems, escrowVars>>

\* Mutant: purchaseInfo that forwards the price and keeps the overpayment.
purchaseInfo_plain_KeepsOverpayment(sender, infoId, value) ==
    /\ variant = "plain"
    /\ value <= ethBalance[sender]
    /\ purchaseInfoRevert_plain(sender, infoId, value) = OK
    /\ MayRequest
    /\ LET seller == infoItems[infoId].owner
           price == infoItems[infoId].price
       IN
       /\ infoItems' = [infoItems EXCEPT ![infoId].hasPurchased = @ \cup {sender}]
       /\ userPurchases' = [userPurchases EXCEPT ![sender] = Append(@, infoId)]
       /\ ethBalance' = Transfer(Transfer(ethBalance, sender, THIS, value),
                                 THIS, seller, price)
       /\ acl' = [acl EXCEPT ![infoItems[infoId].encryptedOwner] = @ \cup {sender}]
       /\ events' = events \cup {<<"InfoPurchased", infoId, sender, seller>>}
    /\ UNCHANGED <<variant, envVars, pureVars, callStack, nextInfoId, aclPrice,
                   userInfoItems, escrowVars>>

purchaseInfo_plain(sender, infoId, value) ==
    /\ variant = "plain"
    /\ value <= ethBalance[sender]
    /\ purchaseInfoRevert_plain(sender, infoId, value) = OK
    /\ MayRequest
    /\ LET seller == infoItems[infoId].owner IN
       /\ infoItems' = [infoItems EXCEPT ![infoId].hasPurchased = @ \cup {sender}]
       /\ userPurchases' = [userPurchases EXCEPT ![sender] = Append(@, infoId)]
       /\ ethBalance' = Transfer(ethBalance, sender, seller, value)
       /\ acl' = [acl EXCEPT ![infoItems[infoId].encryptedOwner] = @ \cup {sender}]
       /\ events' = events \cup {<<"InfoPurchased", infoId, sender, seller>>}
    /\ UNCHANGED <<variant, envVars, pureVars, callStack, nextInfoId, aclPrice, userInfoItems, escrowVars>>

grantAccessRevert_plain(sender, infoId, buyer) ==
    FirstFailure(<<
        <<validInfoId(infoId), "Invalid info ID">>,
        <<infoItems[infoId].owner = sender, "Only owner can grant access">>,
        <<buyer \in infoItems[infoId].hasPurchased, "Buyer has not purchased">>,
        <<buyer \notin infoItems[infoId].hasAccess, "Access already granted">>,
        <<~fheDown, "FHE call failed">> >>)

grantAccess_plain(sender, infoId, buyer) ==
    /\ variant = "plain"
    /\ grantAccessRevert_plain(sender, infoId, buyer) = OK
    /\ infoItems' = [infoItems EXCEPT ![infoId].hasAccess = @ \cup {buyer}]
    /\ acl' = [acl EXCEPT ![infoItems[infoId].encryptedOwner] = @ \cup {buyer}]
    /\ events' = events \cup {<<"AccessGranted", infoId, buyer>>}
    /\ UNCHANGED <<variant, envVars, pureVars, callStack, nextInfoId, ethBalance, purchaseVars, escrowVars>>

\* Mutant: updatePrice without the isActive check.
updatePriceRevert_plain_NoActiveCheck(sender, infoId, newPrice) ==
    FirstFailure(<<
        <<validInfoId(infoId), "Invalid info ID">>,
        <<infoItems[infoId].owner = sender, "Only owner can update price">>,
        <<newPrice > 0, "Price must be greater than 0">> >>)

updatePriceRevert_plain(sender, infoId, newPrice) ==
    FirstFailure(<<
        <<validInfoId(infoId), "Invalid info ID">>,
        <<infoItems[infoId].owner = sender, "Only owner can update price">>,
        <<infoItems[infoId].isActive, "Info is not active">>,
        <<newPrice > 0, "Price must be greater than 0">> >>)

\* Mutant: updatePrice that also restamps the item.
updatePrice_plain_Restamps(sender, infoId, newPrice) ==
    /\ variant = "plain"
    /\ updatePriceRevert_plain(sender, infoId, newPrice) = OK
    /\ infoItems' = [infoItems EXCEPT ![infoId].price = newPrice,
                                      ![infoId].createdAt = 0]
    /\ UNCHANGED <<variant, envVars, pureVars, callStack, nextInfoId, ethBalance, acl, events, purchaseVars,
                   escrowVars>>

updatePrice_plain(sender, infoId, newPrice) ==
    /\ variant = "plain"
    /\ updatePriceRevert_plain(sender, infoId, newPrice) = OK
    /\ infoItems' = [infoItems EXCEPT ![infoId].price = newPrice]
    /\ UNCHANGED <<variant, envVars, pureVars, callStack, nextInfoId, ethBalance, acl, events, purchaseVars,
                   escrowVars>>

deactivateInfoRevert_plain(sender, infoId) ==
    FirstFailure(<<
        <<validInfoId(infoId), "Invalid info ID">>,
        <<infoItems[infoId].owner = sender, "Only owner can deactivate">>,
        <<infoItems[infoId].isActive, "Info already inactive">> >>)

deactivateInfo_plain(sender, infoId) ==
    /\ variant = "plain"
    /\ deactivateInfoRevert_plain(sender, infoId) = OK
    /\ infoItems' = [infoItems EXCEPT ![infoId].isActive = FALSE]
    /\ events' = events \cup {<<"InfoDeactivated", infoId>>}
    /\ UNCHANGED <<variant, envVars, pureVars, callStack, nextInfoId, ethBalance, acl, purchaseVars, escrowVars>>

\* view: getInfoContent
getInfoContentRevert_plain(sender, infoId) ==
    FirstFailure(<<
        <<validInfoId(infoId), "Invalid info ID">>,
        <<sender \in infoItems[infoId].hasAccess, "No access to this info">> >>)

\* view: getPrice
getPriceRevert_plain(sender, infoId) ==
    FirstFailure(<< <<validInfoId(infoId), "Invalid info ID">> >>)

getPrice_plain(sender, infoId) == infoItems[infoId].price

\* view: getEncryptedOwner
getEncryptedOwnerRevert_plain(sender, infoId) ==
    FirstFailure(<< <<validInfoId(infoId), "Invalid info ID">> >>)

\* view: getTotalInfoCount
getTotalInfoCount == nextInfoId - 1

\* ---------------------------------------------- encrypted-price contract
createInfoRevert_enc(sender, title, info, price) ==
    FirstFailure(<<
        <<title # "", "Title cannot be empty">>,
        <<info # "", "Info cannot be empty">>,
        <<~fheDown, "FHE call failed">> >>)

\* Mutant: createInfo that does not advance nextInfoId.
createInfo_enc_KeepsNextId(sender, title, info, price) ==
    /\ variant = "enc"
    /\ createInfoRevert_enc(sender, title, info, price) = OK
    /\ MayCreate
    /\ LET infoId == nextInfoId IN
       /\ nextInfoId' = nextInfoId
       /\ \E ts \in Timestamps :
              infoItems' = [infoItems EXCEPT ![infoId] =
                  [title |-> title, info |-> info, encryptedOwner |-> infoId,
                   price |-> price, isActive |-> TRUE, owner |-> sender,
                   createdAt |-> ts, hasPurchased |-> {}, hasAccess |-> {sender}]]
       /\ acl' = [acl EXCEPT ![infoId] = @ \cup {THIS, sender}]
       /\ aclPrice' = [aclPrice EXCEPT ![infoId] = {THIS, sender}]
       /\ userInfoItems' = [userInfoItems EXCEPT ![sender] = Append(@, infoId)]
       /\ events' = events \cup {<<"InfoCreated", infoId, sender, title>>}
    /\ UNCHANGED <<variant, envVars, pureVars, callStack, ethBalance, userPurchases, escrowVars>>

createInfo_enc(sender, title, info, price) ==
    /\ variant = "enc"
    /\ createInfoRevert_enc(sender, title, info, price) = OK
    /\ MayCreate
    /\ LET infoId == nextInfoId IN
       /\ nextInfoId' = nextInfoId + 1
       /\ \E ts \in Timestamps :
              infoItems' = [infoItems EXCEPT ![infoId] =
                  [title |-> title, info |-> info, encryptedOwner |-> infoId,
                   price |-> price, isActive |-> TRUE, owner |-> sender,
                   createdAt |-> ts, hasPurchased |-> {}, hasAccess |-> {sender}]]
       /\ acl' = [acl EXCEPT ![infoId] = @ \cup {THIS, sender}]
       /\ aclPrice' = [aclPrice EXCEPT ![infoId] = {THIS, sender}]
       /\ userInfoItems' = [userInfoItems EXCEPT ![sender] = Append(@, infoId)]
       /\ events' = events \cup {<<"InfoCreated", infoId, sender, title>>}
    /\ UNCHANGED <<variant, envVars, pureVars, callStack, ethBalance, userPurchases, escrowVars>>

\* Mutant: purchaseInfo without the isActive check.
purchaseInfoRevert_enc_NoActiveCheck(sender, infoId, value) ==
    FirstFailure(<<
        <<validInfoId(infoId), "Invalid info ID">>,
        <<infoItems[infoId].owner # sender, "Cannot purchase your own info">>,
        <<sender \notin infoItems[infoId].hasPurchased, "Already purchased">>,
        <<~fheDown, "FHE call failed">> >>)

\* Mutant: purchaseInfo without the "Already purchased" check.
purchaseInfoRevert_enc_NoPurchasedCheck(sender, infoId, value) ==
    FirstFailure(<<
        <<validInfoId(infoId), "Invalid info ID">>,
        <<infoItems[infoId].isActive, "Info is not active">>,
        <<infoItems[infoId].owner # sender, "Cannot purchase your own info">>,
        <<~fheDown, "FHE call failed">> >>)

\* Mutant: purchaseInfo that requires a payment.
purchaseInfoRevert_enc_NeedsPayment(sender, infoId, value) ==
    FirstFailure(<<
        <<validInfoId(infoId), "Invalid info ID">>,
        <<infoItems[infoId].isActive, "Info is not active">>,
        <<infoItems[infoId].owner # sender, "Cannot purchase your own info">>,
        <<sender \notin infoItems[infoId].hasPurchased, "Already purchased">>,
        <<value > 0, "Insufficient payment">>,
        <<~fheDown, "FHE call failed">> >>)

purchaseInfoRevert_enc(sender, infoId, value) ==
    FirstFailure(<<
        <<validInfoId(infoId), "Invalid info ID">>,
        <<infoItems[infoId].isActive, "Info is not active">>,
        <<infoItems[infoId].owner # sender, "Cannot purchase your own info">>,
        <<sender \notin infoItems[infoId].hasPurchased, "Already purchased">>,
        <<~fheDown, "FHE call failed">> >>)

purchaseInfo_enc(sender, infoId, value) ==
    /\ variant = "enc"
    /\ value <= ethBalance[sender]
    /\ purchaseInfoRevert_enc(sender, infoId, value) = OK
    /\ MayRequest
    /\ LET seller == infoItems[infoId].owner IN
       /\ ethBalance' = Transfer(ethBalance, sender, THIS, value)
       /\ infoItems' = [infoItems EXCEPT ![infoId].hasPurchased = @ \cup {sender}]
       /\ userPurchases' = [userPurchases EXCEPT ![sender] = Append(@, infoId)]
       /\ aclPrice' = [aclPrice EXCEPT ![infoId] = @ \cup {THIS, sender}]
       /\ acl' = [acl EXCEPT ![infoItems[infoId].encryptedOwner] = @ \cup {sender}]
       /\ events' = events \cup {<<"InfoPurchased", infoId, sender, seller>>}
    /\ UNCHANGED <<variant, envVars, pureVars, callStack, nextInfoId, userInfoItems, escrowVars>>

\* Mutant: grantAccess without the hasPurchased check.
grantAccessRevert_enc_NoPurchaseCheck(sender, infoId, buyer) ==
    FirstFailure(<<
        <<validInfoId(infoId), "Invalid info ID">>,
        <<infoItems[infoId].owner = sender, "Only owner can grant access">>,
        <<buyer \notin infoItems[infoId].hasAccess, "Access already granted">>,
        <<~fheDown, "FHE call failed">> >>)

grantAccessRevert_enc(sender, infoId, buyer) ==
    FirstFailure(<<
        <<validInfoId(infoId), "Invalid info ID">>,
        <<infoItems[infoId].owner = sender, "Only owner can grant access">>,
        <<buyer \in infoItems[infoId].hasPurchased, "Buyer has not purchased">>,
        <<buyer \notin infoItems[infoId].hasAccess, "Access already granted">>,
        <<~fheDown, "FHE call failed">> >>)

grantAccess_enc(sender, infoId, buyer) ==
    /\ variant = "enc"
    /\ grantAccessRevert_enc(sender, infoId, buyer) = OK
    /\ infoItems' = [infoItems EXCEPT ![infoId].hasAccess = @ \cup {buyer}]
    /\ acl' = [acl EXCEPT ![infoItems[infoId].encryptedOwner] = @ \cup {buyer}]
    /\ aclPrice' = [aclPrice EXCEPT ![infoId] = @ \cup {buyer}]
    /\ events' = events \cup {<<"AccessGranted", infoId, buyer>>}
    /\ UNCHANGED <<variant, envVars, pureVars, callStack, nextInfoId, ethBalance, userInfoItems, userPurchases,
                   escrowVars>>

updatePriceRevert_enc(sender, infoId, newPrice) ==
    FirstFailure(<<
        <<validInfoId(infoId), "Invalid info ID">>,
        <<infoItems[infoId].owner = sender, "Only owner can update price">>,
        <<infoItems[infoId].isActive, "Info is not active">>,
        <<~fheDown, "FHE call failed">> >>)

updatePrice_enc(sender, infoId, newPrice) ==
    /\ variant = "enc"
    /\ updatePriceRevert_enc(sender, infoId, newPrice) = OK
    /\ infoItems' = [infoItems EXCEPT ![infoId].price = newPrice]
    /\ aclPrice' = [aclPrice EXCEPT ![infoId] = {THIS, sender}]
    /\ UNCHANGED <<variant, envVars, pureVars, callStack, nextInfoId, ethBalance, acl, events, userInfoItems,
                   userPurchases, escrowVars>>

deactivateInfoRevert_enc(sender, infoId) ==
    FirstFailure(<<
        <<validInfoId(infoId), "Invalid info ID">>,
        <<infoItems[infoId].owner = sender, "Only owner can deactivate">>,
        <<infoItems[infoId].isActive, "Info already inactive">> >>)

deactivateInfo_enc(sender, infoId) ==
    /\ variant = "enc"
    /\ deactivateInfoRevert_enc(sender, infoId) = OK
    /\ infoItems' = [infoItems EXCEPT ![infoId].isActive = FALSE]
    /\ events' = events \cup {<<"InfoDeactivated", infoId>>}
    /\ UNCHANGED <<variant, envVars, pureVars, callStack, nextInfoId, ethBalance, acl, purchaseVars, escrowVars>>

\* view: getInfoContent
getInfoContentRevert_enc(sender, infoId) ==
    FirstFailure(<<
        <<validInfoId(infoId), "Invalid info ID">>,
        <<sender \in infoItems[infoId].hasAccess, "No access to this info">> >>)

\* view: getEncryptedOwner
getEncryptedOwnerRevert_enc(sender, infoId) ==
    FirstFailure(<< <<validInfoId(infoId), "Invalid info ID">> >>)

\* ===================================================================
\* Escrow contract, calls made by the recipient of a transfer
\* ===================================================================
\* grantAccess, denyAccess and withdrawPlatformFees hand control to the
\* recipient of the ETH they send. Each is split at that point: f_call is
\* the function up to and including the transfer, which leaves the call on
\* callStack while the recipient runs, and transferReturns is the rest of
\* the function (the emit) once the recipient has returned. The gas limit of
\* transfer (2300) is not modelled: the recipient may call anything.
Frame(fn, sender, infoId, buyer) ==
    [fn |-> fn, sender |-> sender, infoId |-> infoId, buyer |-> buyer]

MayCall == Len(callStack) < MaxDepth

\* Mutant: grantAccess that sends the ETH before it updates the request.
grantAccess_call_PaysBeforeUpdate(sender, infoId, buyer) ==
    /\ variant = "escrow"
    /\ grantAccessRevert(sender, infoId, buyer) = OK
    /\ MayCall
    /\ LET item == infoItems[infoId]
           fee == Fee(item.price)
           sellerAmount == SellerAmount(item.price)
       IN
       /\ acl' = [acl EXCEPT ![item.encryptedInfo] = @ \cup {buyer}]
       /\ platformBalance' = platformBalance + fee
       /\ ethBalance' = Transfer(ethBalance, THIS, sender, sellerAmount)
       /\ callStack' = Append(callStack, Frame("grantAccess", sender, infoId, buyer))
    /\ UNCHANGED <<variant, envVars, pureVars, nextInfoId, infoItems, events, owner,
                   purchaseRequests, purchaseRequestsList, sellerInfos, buyerRequests,
                   paid, purchaseVars>>

grantAccess_call(sender, infoId, buyer) ==
    /\ variant = "escrow"
    /\ grantAccessRevert(sender, infoId, buyer) = OK
    /\ MayCall
    /\ LET item == infoItems[infoId]
           fee == Fee(item.price)
           sellerAmount == SellerAmount(item.price)
       IN
       /\ purchaseRequests' = [purchaseRequests EXCEPT
              ![infoId][buyer].isPending = FALSE,
              ![infoId][buyer].isApproved = TRUE]
       /\ acl' = [acl EXCEPT ![item.encryptedInfo] = @ \cup {buyer}]
       /\ platformBalance' = platformBalance + fee
       /\ ethBalance' = Transfer(ethBalance, THIS, sender, sellerAmount)
       /\ callStack' = Append(callStack, Frame("grantAccess", sender, infoId, buyer))
    /\ UNCHANGED <<variant, envVars, pureVars, nextInfoId, infoItems, events, owner,
                   purchaseRequestsList, sellerInfos, buyerRequests, paid, purchaseVars>>

denyAccess_call(sender, infoId, buyer) ==
    /\ variant = "escrow"
    /\ denyAccessRevert(sender, infoId, buyer) = OK
    /\ MayCall
    /\ purchaseRequests' = [purchaseRequests EXCEPT
           ![infoId][buyer].isPending = FALSE,
           ![infoId][buyer].isApproved = FALSE]
    /\ ethBalance' = Transfer(ethBalance, THIS, buyer, Refund(infoId, buyer))
    /\ callStack' = Append(callStack, Frame("denyAccess", sender, infoId, buyer))
    /\ UNCHANGED <<variant, envVars, pureVars, nextInfoId, infoItems, acl, events, owner,
                   platformBalance, purchaseRequestsList, sellerInfos, buyerRequests,
                   paid, purchaseVars>>

withdrawPlatformFees_call(sender) ==
    /\ variant = "escrow"
    /\ withdrawPlatformFeesRevert(sender) = OK
    /\ MayCall
    /\ LET amount == platformBalance IN
       /\ platformBalance' = 0
       /\ ethBalance' = Transfer(ethBalance, THIS, owner, amount)
    /\ callStack' = Append(callStack, Frame("withdrawPlatformFees", sender, 0, ZeroAddress))
    /\ UNCHANGED <<variant, envVars, pureVars, nextInfoId, infoItems, acl, events, owner,
                   purchaseRequests, purchaseRequestsList, sellerInfos, buyerRequests,
                   paid, purchaseVars>>

\* The recipient of the innermost transfer returns; the suspended function
\* emits its event and returns.
transferReturns ==
    /\ variant = "escrow"
    /\ callStack # <<>>
    /\ LET f == callStack[Len(callStack)] IN
       /\ events' =
              IF f.fn = "grantAccess"
              THEN events \cup {<<"AccessGranted", f.infoId, f.buyer, f.sender>>}
              ELSE IF f.fn = "denyAccess"
              THEN events \cup {<<"AccessDenied", f.infoId, f.buyer, f.sender>>}
              ELSE events
       /\ callStack' = SubSeq(callStack, 1, Len(callStack) - 1)
    /\ UNCHANGED <<variant, envVars, pureVars, nextInfoId, infoItems, ethBalance, acl,
                   escrowVars, purchaseVars>>

\* ===================================================================
\* InfoEncoder and StringAddressUtils: src/contracts/StringAddressUtils.sol
\* ===================================================================
\* keccak256 of a byte string. The hash itself is replaced by a polynomial
\* hash of HashBits bits: a fixed function of the bytes with collisions, of
\* which the callers use nothing but the value.
RECURSIVE keccak256(_)
keccak256(bytes) ==
    IF bytes = <<>> THEN 5
    ELSE (31 * keccak256(SubSeq(bytes, 1, Len(bytes) - 1)) + bytes[Len(bytes)])
             % (2^HashBits)

\* abi.encodePacked of one string: its bytes.
encodePacked(str) == str

\* address(uint160(uint256(hash))): the low-order bits of the hash.
stringToAddress(str) == keccak256(encodePacked(str)) % (2^AddressBits)

\* Mutant: verifyStringAddress that compares the untruncated hash.
verifyStringAddress_FullHash(str, addr) == keccak256(encodePacked(str)) = addr

verifyStringAddress(str, addr) == stringToAddress(str) = addr

\* The loop of batchEncodeStrings from index i on (i counts from 0).
RECURSIVE batchEncodeLoop(_, _, _)
batchEncodeLoop(strs, i, addresses) ==
    IF i < Len(strs)
    THEN batchEncodeLoop(strs, i + 1,
                         [addresses EXCEPT ![i + 1] = stringToAddress(strs[i + 1])])
    ELSE addresses

\* Return values of the external functions.
encodeStringReturn(str) == stringToAddress(str)
verifyEncodingReturn(str, addr) == verifyStringAddress(str, addr)
batchEncodeStringsReturn(strs) ==
    batchEncodeLoop(strs, 0, [k \in 1..Len(strs) |-> 0])

\* encoderCalls keeps a call and the one before it.
Latest(calls) == IF Len(calls) > 2 THEN Tail(calls) ELSE calls

\* A call record: the function, its string arguments, its address argument
\* (0 when it has none), the addresses returned and the boolean returned
\* (FALSE when it returns none).
EncoderCall(fn, strs, addr, ret, ok) ==
    [fn |-> fn, strs |-> strs, addr |-> addr, ret |-> ret, ok |-> ok]

encodeString(k) ==
    /\ variant = "encoder"
    /\ k \in DOMAIN strings
    /\ encoderCalls' = Latest(Append(encoderCalls,
           EncoderCall("encodeString", <<strings[k]>>, 0,
                       <<encodeStringReturn(strings[k])>>, FALSE)))
    /\ UNCHANGED <<variant, envVars, strings, frontendVars, callStack, nextInfoId, infoItems, ethBalance, acl,
                   events, escrowVars, purchaseVars>>

verifyEncoding(k, addr) ==
    /\ variant = "encoder"
    /\ k \in DOMAIN strings
    /\ encoderCalls' = Latest(Append(encoderCalls,
           EncoderCall("verifyEncoding", <<strings[k]>>, addr, <<>>,
                       verifyEncodingReturn(strings[k], addr))))
    /\ UNCHANGED <<variant, envVars, strings, frontendVars, callStack, nextInfoId, infoItems, ethBalance, acl,
                   events, escrowVars, purchaseVars>>

batchEncodeStrings ==
    /\ variant = "encoder"
    /\ encoderCalls' = Latest(Append(encoderCalls,
           EncoderCall("batchEncodeStrings", strings, 0,
                       batchEncodeStringsReturn(strings), FALSE)))
    /\ UNCHANGED <<variant, envVars, strings, frontendVars, callStack, nextInfoId, infoItems, ethBalance, acl,
                   events, escrowVars, purchaseVars>>

\* ===================================================================
\* Frontend XOR obfuscation: src/unnamed/part_001 (encryptByKey),
\* src/app/src/components/InfoBrowse.tsx and InfoList.tsx (decryptByKey)
\* ===================================================================
\* A JavaScript string is the sequence of its UTF-16 code units; a key
\* address is the sequence of its characters, "0", "x" and the hex digits.
\* A base64 string is a sequence of the values 0..63 of its characters,
\* with Pad for "=".
Pad == 64
HexDigits == <<"0", "1", "2", "3", "4", "5", "6", "7", "8", "9",
               "a", "b", "c", "d", "e", "f">>
UpperDigits == <<"0", "1", "2", "3", "4", "5", "6", "7", "8", "9",
                 "A", "B", "C", "D", "E", "F">>
ADDRESS_BYTES == 20              \* bytes of an address
KeyLen == 2 * ADDRESS_BYTES      \* its hex digits

\* The digits the keys of a run repeat: all zero, all f, every digit in
\* turn, and an odd-length mix of upper and lower case.
KeyPatterns == {<<"0">>, <<"f">>, HexDigits, <<"A", "5", "c", "3", "0", "F", "7">>}
KeyAddresses ==
    {<<"0", "x">> \o [k \in 1..KeyLen |-> pat[((k - 1) % Len(pat)) + 1]] :
        pat \in KeyPatterns}

\* Code units of the contents: 256 is outside Latin-1.
DataChars == {0, 65, 255, 256}
\* Contents long enough for the key to be used up and start again.
LongDatas == {[k \in 1..n |-> (37 * k) % 256] : n \in {KeyLen \div 2, (KeyLen \div 2) + 2}}
Datas == SeqsUpTo(DataChars, MaxDataLen) \cup LongDatas

\* Outcome of a call: not made, returned a value, or threw.
NotCalled == [state |-> "none", value |-> <<>>]
Returned(v) == [state |-> "returned", value |-> v]
Threw == [state |-> "threw", value |-> <<>>]

\* parseInt(h, 16) of one hex digit.
HexVal(c) ==
    IF \E k \in 1..16 : HexDigits[k] = c
    THEN (CHOOSE k \in 1..16 : HexDigits[k] = c) - 1
    ELSE (CHOOSE k \in 1..16 : UpperDigits[k] = c) - 1

\* parseInt(h1 + h2, 16).
parseInt16(h1, h2) == 16 * HexVal(h1) + HexVal(h2)

\* a ^ b on non-negative integers.
RECURSIVE BitXor(_, _)
BitXor(a, b) ==
    IF a = 0 THEN b
    ELSE IF b = 0 THEN a
    ELSE 2 * BitXor(a \div 2, b \div 2) + (((a % 2) + (b % 2)) % 2)

\* keyAddress.slice(2).
slice2(str) == SubSeq(str, 3, Len(str))

\* str[i] for a 0-based index.
At(str, i) == str[i + 1]

\* btoa on a string of code units below 256: base64 of the bytes.
RECURSIVE Base64Encode(_)
Base64Encode(bytes) ==
    IF Len(bytes) = 0 THEN <<>>
    ELSE IF Len(bytes) = 1 THEN
        <<bytes[1] \div 4, (bytes[1] % 4) * 16, Pad, Pad>>
    ELSE IF Len(bytes) = 2 THEN
        <<bytes[1] \div 4, ((bytes[1] % 4) * 16) + (bytes[2] \div 16),
          (bytes[2] % 16) * 4, Pad>>
    ELSE
        <<bytes[1] \div 4, ((bytes[1] % 4) * 16) + (bytes[2] \div 16),
          ((bytes[2] % 16) * 4) + (bytes[3] \div 64), bytes[3] % 64>>
            \o Base64Encode(SubSeq(bytes, 4, Len(bytes)))

\* btoa: throws InvalidCharacterError on a code unit above 255.
btoa(str) ==
    IF \E k \in DOMAIN str : str[k] > 255 THEN Threw
    ELSE Returned(Base64Encode(str))

\* atob on well-formed base64 (groups of four, padding in the last only).
RECURSIVE Base64Decode(_)
Base64Decode(b64) ==
    IF Len(b64) = 0 THEN <<>>
    ELSE LET c1 == b64[1]
             c2 == b64[2]
             c3 == b64[3]
             c4 == b64[4]
             rest == Base64Decode(SubSeq(b64, 5, Len(b64)))
         IN
         IF c3 = Pad THEN <<(c1 * 4) + (c2 \div 16)>> \o rest
         ELSE IF c4 = Pad THEN
             <<(c1 * 4) + (c2 \div 16), ((c2 % 16) * 16) + (c3 \div 4)>> \o rest
         ELSE <<(c1 * 4) + (c2 \div 16), ((c2 % 16) * 16) + (c3 \div 4),
                ((c3 % 4) * 64) + c4>>
                  \o rest

\* atob: throws on a string that is not base64.
atob(b64) ==
    IF Len(b64) % 4 # 0 THEN Threw ELSE Returned(Base64Decode(b64))

\* The key byte encryptByKey uses at index i (part_001:23).
keyChar_encryptByKey(keyBytes, i) ==
    parseInt16(At(keyBytes, (i * 2) % Len(keyBytes)),
               At(keyBytes, (i * 2 + 1) % Len(keyBytes)))

\* Mutant: the key byte built from the digit pair one digit further on.
keyChar_decryptByKey_Shifted(keyBytes, i) ==
    parseInt16(At(keyBytes, (i * 2 + 1) % Len(keyBytes)),
               At(keyBytes, (i * 2 + 2) % Len(keyBytes)))

\* The key byte decryptByKey uses at index i (InfoBrowse.tsx:19).
keyChar_decryptByKey(keyBytes, i) ==
    parseInt16(At(keyBytes, (i * 2) % Len(keyBytes)),
               At(keyBytes, (i * 2 + 1) % Len(keyBytes)))

\* The key byte the copy of decryptByKey in InfoList.tsx uses (line 463).
keyChar_decryptByKey_InfoList(keyBytes, i) ==
    parseInt16(At(keyBytes, (i * 2) % Len(keyBytes)),
               At(keyBytes, (i * 2 + 1) % Len(keyBytes)))

\* The loop of encryptByKey from index i on.
RECURSIVE encryptLoop(_, _, _, _)
encryptLoop(str, keyBytes, i, out) ==
    IF i < Len(str)
    THEN encryptLoop(str, keyBytes, i + 1,
             Append(out, BitXor(At(str, i), keyChar_encryptByKey(keyBytes, i))))
    ELSE out

encryptByKey(str, key) == btoa(encryptLoop(str, slice2(key), 0, <<>>))

\* The loop of decryptByKey from index i on.
RECURSIVE decryptLoop(_, _, _, _)
decryptLoop(str, keyBytes, i, out) ==
    IF i < Len(str)
    THEN decryptLoop(str, keyBytes, i + 1,
             Append(out, BitXor(At(str, i), keyChar_decryptByKey(keyBytes, i))))
    ELSE out

\* decryptByKey: the catch block returns the empty string.
decryptByKey(encryptedData, key) ==
    IF atob(encryptedData).state = "threw" THEN Returned(<<>>)
    ELSE Returned(decryptLoop(atob(encryptedData).value, slice2(key), 0, <<>>))

RECURSIVE decryptLoop_InfoList(_, _, _, _)
decryptLoop_InfoList(str, keyBytes, i, out) ==
    IF i < Len(str)
    THEN decryptLoop_InfoList(str, keyBytes, i + 1,
             Append(out, BitXor(At(str, i), keyChar_decryptByKey_InfoList(keyBytes, i))))
    ELSE out

decryptByKey_InfoList(encryptedData, key) ==
    IF atob(encryptedData).state = "threw" THEN Returned(<<>>)
    ELSE Returned(decryptLoop_InfoList(atob(encryptedData).value, slice2(key), 0, <<>>))

\* The submission form obfuscates the content.
Encrypt ==
    /\ variant = "frontend"
    /\ encrypted = NotCalled
    /\ encrypted' = encryptByKey(data, keyAddress)
    /\ UNCHANGED <<variant, envVars, encoderVars, callStack, data, keyAddress, decrypted,
                   nextInfoId, infoItems, ethBalance, acl, events, escrowVars,
                   purchaseVars>>

\* A component (InfoBrowse or InfoList) reads the content back.
Decrypt(component) ==
    /\ variant = "frontend"
    /\ encrypted.state = "returned"
    /\ decrypted = NotCalled
    /\ decrypted' = IF component = "InfoBrowse"
                    THEN decryptByKey(encrypted.value, keyAddress)
                    ELSE decryptByKey_InfoList(encrypted.value, keyAddress)
    /\ UNCHANGED <<variant, envVars, encoderVars, callStack, data, keyAddress, encrypted,
                   nextInfoId, infoItems, ethBalance, acl, events, escrowVars,
                   purchaseVars>>

\* ===================================================================
\* Specification
\* ===================================================================
\* The state after the constructor of one of the contracts in V has run,
\* in an environment whose ETH-rejecting accounts are one of the sets in R.
InitLedger(V, R) ==
    /\ variant \in V
    /\ rejectsEth \in R
    /\ fheDown = FALSE
    /\ callStack = <<>>
    /\ nextInfoId = 1
    /\ infoItems = [i \in InfoIds |-> IF variant = "escrow" THEN EmptyItem
                                                           ELSE EmptyPurchaseItem]
    /\ ethBalance = [a \in Users \cup {THIS} |-> IF a = THIS THEN 0 ELSE InitialFunds]
    /\ acl = [i \in InfoIds |-> {}]
    /\ aclPrice = [i \in InfoIds |-> {}]
    /\ events = {}
    /\ owner = Deployer
    /\ platformBalance = 0
    /\ purchaseRequests = [i \in InfoIds |-> [a \in Users |-> EmptyRequest]]
    /\ purchaseRequestsList = [i \in InfoIds |-> <<>>]
    /\ sellerInfos = [a \in Users |-> <<>>]
    /\ buyerRequests = [a \in Users |-> <<>>]
    /\ paid = [i \in InfoIds |-> [a \in Users |-> 0]]
    /\ userInfoItems = [a \in Users |-> <<>>]
    /\ userPurchases = [a \in Users |-> <<>>]

\* No call of a pure function is made in the run.
NoEncoderCalls ==
    /\ strings = <<>>
    /\ encoderCalls = <<>>

NoFrontendCalls ==
    /\ data = <<>>
    /\ keyAddress = <<>>
    /\ encrypted = NotCalled
    /\ decrypted = NotCalled

NoPureCalls == NoEncoderCalls /\ NoFrontendCalls

InitWith(V, R) == InitLedger(V, R) /\ NoPureCalls

\* The same with every account accepting ETH.
InitOf(V) == InitWith(V, {{}})

Init == InitOf(Variants)
InitEscrow == InitOf({"escrow"})
InitPlain == InitOf({"plain"})
InitEnc == InitOf({"enc"})
InitPurchase == InitOf({"plain", "enc"})
InitEscrowFailing == InitWith({"escrow"}, RejectingSets)

InitPlainFailing == InitWith({"plain"}, RejectingSets)

\* InfoEncoder deployed; the strings of the run are any array in StringArrays.
InitEncoder ==
    /\ InitLedger({"encoder"}, {{}})
    /\ strings \in StringArrays
    /\ encoderCalls = <<>>
    /\ NoFrontendCalls

\* The frontend with any content in Datas and any key in KeyAddresses.
InitFrontend ==
    /\ InitLedger({"frontend"}, {{}})
    /\ NoEncoderCalls
    /\ data \in Datas
    /\ keyAddress \in KeyAddresses
    /\ encrypted = NotCalled
    /\ decrypted = NotCalled

NextEscrow ==
    \/ \E s \in Sellers, p \in Prices : uploadInfo(s, p)
    \/ \E s \in Users, i \in InfoIds, v \in MsgValues : requestPurchase(s, i, v)
    \/ \E s \in Users, i \in InfoIds, b \in Users : grantAccess(s, i, b)
    \/ \E s \in Users, i \in InfoIds, b \in Users : denyAccess(s, i, b)
    \/ \E s \in Users, i \in InfoIds : deactivateInfo(s, i)
    \/ \E s \in Users : withdrawPlatformFees(s)

NextPlain ==
    \/ \E s \in Sellers, t \in Titles, c \in Infos, p \in Prices :
           createInfo_plain(s, t, c, p)
    \/ \E s \in Users, i \in InfoIds, v \in MsgValues : purchaseInfo_plain(s, i, v)
    \/ \E s \in Users, i \in InfoIds, b \in Users : grantAccess_plain(s, i, b)
    \/ \E s \in Users, i \in InfoIds, p \in NewPrices : updatePrice_plain(s, i, p)
    \/ \E s \in Users, i \in InfoIds : deactivateInfo_plain(s, i)

NextEnc ==
    \/ \E s \in Sellers, t \in Titles, c \in Infos, p \in Prices :
           createInfo_enc(s, t, c, p)
    \/ \E s \in Users, i \in InfoIds, v \in MsgValuesEnc : purchaseInfo_enc(s, i, v)
    \/ \E s \in Users, i \in InfoIds, b \in Users : grantAccess_enc(s, i, b)
    \/ \E s \in Users, i \in InfoIds, p \in NewPrices : updatePrice_enc(s, i, p)
    \/ \E s \in Users, i \in InfoIds : deactivateInfo_enc(s, i)

\* The escrow contract with one item of any price in FeePrices, paid exactly.
NextEscrowFees ==
    \/ \E s \in Sellers, p \in FeePrices : nextInfoId = 1 /\ uploadInfo(s, p)
    \/ \E s \in Users, i \in InfoIds, v \in FeePrices :
           v = infoItems[i].price /\ requestPurchase(s, i, v)
    \/ \E s \in Users, i \in InfoIds, b \in Users : grantAccess(s, i, b)
    \/ \E s \in Users, i \in InfoIds, b \in Users : denyAccess(s, i, b)
    \/ \E s \in Users, i \in InfoIds : deactivateInfo(s, i)
    \/ \E s \in Users : withdrawPlatformFees(s)

\* Environment: the FHE library starts or stops reverting calls.
FheOutage(down) ==
    /\ fheDown # down
    /\ fheDown' = down
    /\ UNCHANGED <<variant, rejectsEth, pureVars, callStack, nextInfoId, infoItems, ethBalance, acl,
                   events,
                   escrowVars, purchaseVars>>

\* The escrow contract with one item, in an environment in which the FHE
\* library may revert and an account may reject ETH.
NextEscrowFailing ==
    \/ \E s \in Sellers, p \in Prices : nextInfoId = 1 /\ uploadInfo(s, p)
    \/ \E s \in Users, i \in InfoIds, v \in MsgValues : requestPurchase(s, i, v)
    \/ \E s \in Users, i \in InfoIds, b \in Users : grantAccess(s, i, b)
    \/ \E s \in Users, i \in InfoIds, b \in Users : denyAccess(s, i, b)
    \/ \E s \in Users, i \in InfoIds : deactivateInfo(s, i)
    \/ \E s \in Users : withdrawPlatformFees(s)
    \/ \E d \in BOOLEAN : FheOutage(d)

\* The plaintext-price contract with one item (an account may reject ETH).
NextPlainFailing ==
    \/ \E s \in Sellers, t \in Titles, c \in Infos, p \in Prices :
           nextInfoId = 1 /\ createInfo_plain(s, t, c, p)
    \/ \E s \in Users, i \in InfoIds, v \in MsgValues : purchaseInfo_plain(s, i, v)
    \/ \E s \in Users, i \in InfoIds, b \in Users : grantAccess_plain(s, i, b)
    \/ \E s \in Users, i \in InfoIds, p \in NewPrices : updatePrice_plain(s, i, p)
    \/ \E s \in Users, i \in InfoIds : deactivateInfo_plain(s, i)

\* The encrypted-price contract with one item.
NextEncOne ==
    \/ \E s \in Sellers, t \in Titles, c \in Infos, p \in Prices :
           nextInfoId = 1 /\ createInfo_enc(s, t, c, p)
    \/ \E s \in Users, i \in InfoIds, v \in MsgValuesEnc : purchaseInfo_enc(s, i, v)
    \/ \E s \in Users, i \in InfoIds, b \in Users : grantAccess_enc(s, i, b)
    \/ \E s \in Users, i \in InfoIds, p \in NewPrices : updatePrice_enc(s, i, p)
    \/ \E s \in Users, i \in InfoIds : deactivateInfo_enc(s, i)

\* The escrow contract with one item, whose transfers let the recipient
\* call back into the contract before they return.
NextEscrowReentrant ==
    \/ \E s \in Sellers, p \in Prices : nextInfoId = 1 /\ uploadInfo(s, p)
    \/ \E s \in Users, i \in InfoIds, v \in MsgValues : requestPurchase(s, i, v)
    \/ \E s \in Users, i \in InfoIds, b \in Users : grantAccess_call(s, i, b)
    \/ \E s \in Users, i \in InfoIds, b \in Users : denyAccess_call(s, i, b)
    \/ \E s \in Users, i \in InfoIds : deactivateInfo(s, i)
    \/ \E s \in Users : withdrawPlatformFees_call(s)
    \/ transferReturns

NextEncoder ==
    \/ \E k \in 1..MaxBatch : encodeString(k)
    \/ \E k \in 1..MaxBatch, a \in Addresses : verifyEncoding(k, a)
    \/ batchEncodeStrings

NextFrontend ==
    \/ Encrypt
    \/ \E c \in {"InfoBrowse", "InfoList"} : Decrypt(c)

Next == NextEscrow \/ NextPlain \/ NextEnc

\* Any of the three contracts is deployed.
Spec == Init /\ [][Next]_vars

\* One contract at a time.
SpecEscrow == InitEscrow /\ [][NextEscrow]_vars
SpecPlain == InitPlain /\ [][NextPlain]_vars
SpecEnc == InitEnc /\ [][NextEnc]_vars

\* Either of the two purchase contracts.
SpecPurchase == InitPurchase /\ [][NextPlain \/ NextEnc]_vars

\* The escrow contract with failing external calls.
SpecEscrowFailing == InitEscrowFailing /\ [][NextEscrowFailing]_vars

\* The seller of the item resolves the request of (infoId, buyer).
Resolve(infoId, buyer) ==
    \/ grantAccess(infoItems[infoId].seller, infoId, buyer)
    \/ denyAccess(infoItems[infoId].seller, infoId, buyer)

\* The escrow contract with one item.
NextEscrowOne ==
    \/ \E s \in Sellers, p \in Prices : nextInfoId = 1 /\ uploadInfo(s, p)
    \/ \E s \in Users, i \in InfoIds, v \in MsgValues : requestPurchase(s, i, v)
    \/ \E s \in Users, i \in InfoIds, b \in Users : grantAccess(s, i, b)
    \/ \E s \in Users, i \in InfoIds, b \in Users : denyAccess(s, i, b)
    \/ \E s \in Users, i \in InfoIds : deactivateInfo(s, i)
    \/ \E s \in Users : withdrawPlatformFees(s)

\* The escrow contract with one item and sellers that do not leave a request
\* they can resolve unresolved for ever.
SpecEscrowLive ==
    /\ InitEscrow
    /\ [][NextEscrowOne]_vars
    /\ \A i \in InfoIds, b \in Users : WF_vars(Resolve(i, b))

\* Any of the three contracts with one item.
SpecOne == Init /\ [][NextEscrowOne \/ NextPlainFailing \/ NextEncOne]_vars

\* The plaintext-price contract with owners that may reject ETH.
SpecPlainFailing == InitPlainFailing /\ [][NextPlainFailing]_vars

\* The escrow contract with re-entrant recipients.
SpecEscrowReentrant == InitEscrow /\ [][NextEscrowReentrant]_vars

\* The frontend's obfuscation of the content.
SpecFrontend == InitFrontend /\ [][NextFrontend]_vars

\* The InfoEncoder contract.
SpecEncoder == InitEncoder /\ [][NextEncoder]_vars

\* The escrow contract over the whole price range.
SpecEscrowFees == InitEscrow /\ [][NextEscrowFees]_vars

\* ===================================================================
\* Properties
\* ===================================================================
\* Values the properties quantify over (reverting inputs included).
CheckValues == {0, 49, 50, 51, 52}

\* The request of (infoId, buyer) exists and is no longer pending.
Resolved(infoId, buyer) ==
    /\ purchaseRequests[infoId][buyer].buyer = buyer
    /\ ~isPending(infoId, buyer)

\* denyAccess has succeeded for (infoId, buyer).
Denied(infoId, buyer) ==
    \E s \in Users : <<"AccessDenied", infoId, buyer, s>> \in events

\* C1: every grantAccess distributes the whole payment of the request: the
\* fee added to platformBalance plus the amount sent to the seller equals
\* the msg.value the buyer sent with requestPurchase.
C1_GrantDistributesFullPayment ==
    [][\A s \in Users, i \in InfoIds, b \in Users :
          grantAccess(s, i, b) =>
              (platformBalance' - platformBalance) + (ethBalance'[s] - ethBalance[s])
                  = paid[i][b]]_vars

\* C2: every denyAccess sends the buyer exactly the msg.value they sent with
\* requestPurchase and leaves isApproved false.
C2_DenyRefundsFullPayment ==
    [][\A s \in Users, i \in InfoIds, b \in Users :
          denyAccess(s, i, b) =>
              /\ ethBalance'[b] = ethBalance[b] + paid[i][b]
              /\ ~purchaseRequests'[i][b].isApproved]_vars

\* C3 as stated: once the request of a pair is resolved (approved or
\* denied), isPending never becomes true again for the pair.
C3_NeverReopened ==
    [][\A i \in InfoIds, b \in Users :
          Resolved(i, b) => ~purchaseRequests'[i][b].isPending]_vars

\* C3 amended: an approved pair never becomes pending again; a denied pair
\* becomes pending again only by a new successful requestPurchase of that
\* buyer for that item.
C3_ReopenedOnlyByNewRequest ==
    [][\A i \in InfoIds, b \in Users :
          Resolved(i, b) /\ purchaseRequests'[i][b].isPending =>
              /\ ~isApproved(i, b)
              /\ \E v \in MsgValues : requestPurchase(b, i, v)]_vars

C3_Witness ==
    \E i \in InfoIds, b \in Users :
        /\ Denied(i, b)
        /\ isPending(i, b)
        /\ purchaseRequestsList[i] = <<b, b>>

\* C4 as stated: once denyAccess has succeeded for a pair, isApproved is
\* false for the pair in every later state.
C4_DeniedNeverApproved ==
    [][\A i \in InfoIds, b \in Users :
          Denied(i, b) => ~purchaseRequests'[i][b].isApproved]_vars

\* C4 amended: denyAccess leaves isApproved false, and afterwards isApproved
\* becomes true for the pair only by the seller's grantAccess of a request
\* of the buyer that is pending again (a new requestPurchase).
C4_DeniedApprovedOnlyByNewGrant ==
    [][\A i \in InfoIds, b \in Users :
          /\ (\E s \in Users : denyAccess(s, i, b)) =>
                 ~purchaseRequests'[i][b].isApproved
          /\ Denied(i, b) /\ ~isApproved(i, b) /\ purchaseRequests'[i][b].isApproved =>
                 /\ isPending(i, b)
                 /\ grantAccess(infoItems[i].seller, i, b)]_vars

C4_Witness ==
    \E i \in InfoIds, b \in Users : Denied(i, b) /\ isApproved(i, b)

\* C5: approval is terminal: once isApproved holds for a pair it stays true
\* and isPending stays false, and every grantAccess, denyAccess and
\* requestPurchase for the pair reverts.
C5_ApprovalTerminal ==
    /\ [](\A i \in InfoIds, b \in Users :
            isApproved(i, b) =>
                /\ ~isPending(i, b)
                /\ \A s \in Users : grantAccessRevert(s, i, b) # OK
                /\ \A s \in Users : denyAccessRevert(s, i, b) # OK
                /\ \A v \in CheckValues : requestPurchaseRevert(b, i, v) # OK)
    /\ [][\A i \in InfoIds, b \in Users :
            isApproved(i, b) =>
                /\ purchaseRequests'[i][b].isApproved
                /\ ~purchaseRequests'[i][b].isPending]_vars

C5_Witness ==
    \E i \in InfoIds, b \in Users :
        /\ isApproved(i, b)
        /\ ~infoItems[i].isActive
        /\ platformBalance = 0

\* C6: while a buyer's request is pending or approved, every requestPurchase
\* of that buyer for the item reverts, with "Purchase already pending" resp.
\* "Already have access" when the item is active and the payment covers the
\* price; a requestPurchase succeeds only for a pair that is neither.
C6_NoSecondRequest ==
    /\ [](\A i \in InfoIds, b \in Users, v \in CheckValues :
            /\ isPending(i, b) =>
                 /\ requestPurchaseRevert(b, i, v) # OK
                 /\ infoActive(i) /\ v >= infoItems[i].price =>
                        requestPurchaseRevert(b, i, v) = "Purchase already pending"
            /\ isApproved(i, b) =>
                 /\ requestPurchaseRevert(b, i, v) # OK
                 /\ infoActive(i) /\ v >= infoItems[i].price =>
                        requestPurchaseRevert(b, i, v) = "Already have access")
    /\ [][\A i \in InfoIds, b \in Users, v \in MsgValues :
            requestPurchase(b, i, v) =>
                /\ ~isPending(i, b)
                /\ ~isApproved(i, b)
                /\ ethBalance'[THIS] = ethBalance[THIS] + v]_vars

C6_Witness ==
    \E i \in InfoIds, b \in Users, v \in CheckValues :
        /\ isPending(i, b)
        /\ requestPurchaseRevert(b, i, v) = "Purchase already pending"
        /\ \E a \in Users : isApproved(i, a)
                            /\ requestPurchaseRevert(a, i, v) = "Already have access"

\* C7: isPending and isApproved are never both true for a pair.
C7_PendingApprovedExclusive ==
    \A i \in InfoIds, b \in Users : ~(isPending(i, b) /\ isApproved(i, b))

C7_Witness ==
    \E i \in InfoIds, a \in Users, b \in Users :
        isApproved(i, a) /\ isPending(i, b)

\* The address holds the access grant of the item: it is the owner / seller
\* or the owner has approved / granted it.
HoldsGrant(infoId, a) ==
    IF variant = "escrow"
    THEN a = infoItems[infoId].seller \/ isApproved(infoId, a)
    ELSE a = infoItems[infoId].owner \/ a \in infoItems[infoId].hasAccess

\* C8: an address is on the access-control list of an item's encrypted
\* handle only if it holds the access grant of the item.
C8_AclOnlyForGrantees ==
    \A i \in InfoIds : \A a \in acl[i] \ {THIS} : HoldsGrant(i, a)

\* view: the revert reason of reading the item's encrypted handle
\* (getEncryptedInfo / getEncryptedOwner) in the deployed contract.
ReadHandleRevert(sender, infoId) ==
    CASE variant = "escrow" -> getEncryptedInfoRevert(sender, infoId)
      [] variant = "plain" -> getEncryptedOwnerRevert_plain(sender, infoId)
      [] variant = "enc" -> getEncryptedOwnerRevert_enc(sender, infoId)

\* C9: reading an item's encrypted handle succeeds only for the owner and
\* for holders of the access grant.
C9_HandleReadNeedsGrant ==
    \A i \in InfoIds, a \in Users :
        ReadHandleRevert(a, i) = OK => HoldsGrant(i, a)

\* view: the revert reason of getInfoContent in the deployed purchase contract.
ReadContentRevert(sender, infoId) ==
    IF variant = "plain" THEN getInfoContentRevert_plain(sender, infoId)
                         ELSE getInfoContentRevert_enc(sender, infoId)

\* C10: in the purchase contracts getInfoContent of an existing item reverts
\* with "No access to this info" for every caller that is neither the owner
\* nor an address for which grantAccess has succeeded (AccessGranted was
\* emitted), whether or not the caller has purchased.
C10_ContentNeedsGrant ==
    variant \in {"plain", "enc"} =>
        \A i \in InfoIds, a \in Users :
            /\ validInfoId(i)
            /\ a # infoItems[i].owner
            /\ <<"AccessGranted", i, a>> \notin events
            => ReadContentRevert(a, i) = "No access to this info"

C10_Witness ==
    /\ variant \in {"plain", "enc"}
    /\ \E i \in InfoIds, a \in Users :
          /\ a \in infoItems[i].hasPurchased
          /\ <<"AccessGranted", i, a>> \notin events
          /\ ReadContentRevert(a, i) = "No access to this info"

\* C11: in the purchase contracts the owner of every created item has
\* hasAccess, can read the content with getInfoContent and the encrypted
\* handle with getEncryptedOwner, and is on the handle's access-control
\* list, in every reachable state.
C11_OwnerAlwaysReads ==
    variant \in {"plain", "enc"} =>
        \A i \in InfoIds :
            validInfoId(i) =>
                LET o == infoItems[i].owner IN
                /\ o \in Users
                /\ o \in infoItems[i].hasAccess
                /\ ReadContentRevert(o, i) = OK
                /\ ReadHandleRevert(o, i) = OK
                /\ o \in acl[infoItems[i].encryptedOwner]

C11_Witness ==
    /\ variant \in {"plain", "enc"}
    /\ \E i \in InfoIds, a \in Users, b \in Users :
          /\ validInfoId(i)
          /\ ~infoItems[i].isActive
          /\ infoItems[i].price \in NewPrices
          /\ a # b
          /\ a \in infoItems[i].hasAccess \ {infoItems[i].owner}
          /\ b \in infoItems[i].hasPurchased \ infoItems[i].hasAccess
          /\ ReadContentRevert(infoItems[i].owner, i) = OK

\* C12: platformBalance starts at 0; each grantAccess adds exactly
\* floor(price * 2 / 100) to it and sends price minus that fee from the
\* contract to the seller; withdrawPlatformFees resets it to 0; no other
\* operation changes it. Hence platformBalance is always the sum of the fees
\* of the approvals since the last withdrawal.
C12_PlatformBalanceIsFeesSinceWithdrawal ==
    /\ platformBalance = 0
    /\ [][/\ \A s \in Users, i \in InfoIds, b \in Users :
               grantAccess(s, i, b) =>
                   LET price == infoItems[i].price
                       fee == (price * 2) \div 100
                   IN /\ platformBalance' = platformBalance + fee
                      /\ ethBalance'[s] = ethBalance[s] + (price - fee)
                      /\ ethBalance'[THIS] = ethBalance[THIS] - (price - fee)
          /\ \A s \in Users : withdrawPlatformFees(s) => platformBalance' = 0
          /\ platformBalance' # platformBalance =>
                 \/ \E s \in Users, i \in InfoIds, b \in Users : grantAccess(s, i, b)
                 \/ \E s \in Users : withdrawPlatformFees(s)]_vars

C12_Witness ==
    \E i \in InfoIds, a \in Users, b \in Users :
        /\ a # b
        /\ isApproved(i, a)
        /\ isApproved(i, b)
        /\ infoItems[i].price = 99
        /\ platformBalance = 1

\* The fee a grantAccess step retains and the amount it sends to the seller.
FeeRetained == platformBalance' - platformBalance
SentToSeller(s) == ethBalance'[s] - ethBalance[s]

\* C13 as stated: for every price > 0 the fee retained by grantAccess is
\* never below the exact 2% share (100 * fee >= 2 * price), exceeds it by at
\* most FEE_PERCENT - 1 hundredths of a wei, and the seller gets price - fee.
C13_TruncationFavoursPlatform ==
    [][\A s \in Users, i \in InfoIds, b \in Users :
          grantAccess(s, i, b) =>
              LET price == infoItems[i].price IN
              /\ price > 0
              /\ SentToSeller(s) = price - FeeRetained
              /\ 100 * FeeRetained >= 2 * price
              /\ 100 * FeeRetained - 2 * price <= PLATFORM_FEE_PERCENT - 1]_vars

\* C13 amended: the truncation favours the seller: for every price > 0 the
\* fee retained by grantAccess is never above the exact 2% share
\* (100 * fee <= 2 * price), falls short of it by less than one wei (at most
\* 99 hundredths), and the seller gets price - fee.
C13_TruncationFavoursSeller ==
    [][\A s \in Users, i \in InfoIds, b \in Users :
          grantAccess(s, i, b) =>
              LET price == infoItems[i].price IN
              /\ price > 0
              /\ SentToSeller(s) = price - FeeRetained
              /\ 100 * FeeRetained <= 2 * price
              /\ 2 * price - 100 * FeeRetained <= 99]_vars

C13_Witness ==
    \E i \in InfoIds, b \in Users :
        /\ <<"AccessGranted", i, b, infoItems[i].seller>> \in events
        /\ infoItems[i].price = 49
        /\ platformBalance = 0
        /\ ethBalance[infoItems[i].seller] = InitialFunds + 49

\* C14: withdrawPlatformFees succeeds exactly when the caller is the
\* deploying owner and platformBalance > 0; any other caller gets "Only owner
\* can call this function" and the owner with an empty balance gets "No fees
\* to withdraw". A successful withdrawal sets platformBalance to 0, moves
\* exactly the previous platformBalance from the contract to the owner,
\* changes nothing else, and a withdrawal directly after it reverts with
\* "No fees to withdraw".
C14_WithdrawOnlyOwnerOnlyFees ==
    /\ [](/\ owner = Deployer
          /\ \A s \in Users :
                /\ withdrawPlatformFeesRevert(s) = OK <=>
                       (s = Deployer /\ platformBalance > 0)
                /\ s # Deployer =>
                       withdrawPlatformFeesRevert(s) = "Only owner can call this function"
                /\ s = Deployer /\ platformBalance = 0 =>
                       withdrawPlatformFeesRevert(s) = "No fees to withdraw")
    /\ [][\A s \in Users :
            withdrawPlatformFees(s) =>
                /\ platformBalance' = 0
                /\ ethBalance' = Transfer(ethBalance, THIS, Deployer, platformBalance)
                /\ ethBalance'[THIS] >= 0
                /\ UNCHANGED <<nextInfoId, infoItems, acl, owner, purchaseRequests,
                               purchaseRequestsList, sellerInfos, buyerRequests>>
                /\ (withdrawPlatformFeesRevert(s) = "No fees to withdraw")']_vars

C14_Witness ==
    /\ platformBalance = 0
    /\ ethBalance[Deployer] = InitialFunds + 1
    /\ withdrawPlatformFeesRevert(Deployer) = "No fees to withdraw"
    /\ \E i \in InfoIds, b \in Users : isApproved(i, b) /\ infoItems[i].seller # Deployer

\* The item has been created (in any of the contracts).
Created(infoId) == infoId > 0 /\ infoId < nextInfoId

\* C15: in all three contracts isActive of a created item only ever changes
\* from true to false: an inactive item is inactive after every step, so
\* isActive changes at most once.
C15_IsActiveOnlyFalls ==
    [][\A i \in InfoIds :
          Created(i) /\ ~infoItems[i].isActive => ~infoItems'[i].isActive]_vars

C15_Witness ==
    \E i \in InfoIds, j \in InfoIds :
        /\ Created(i) /\ Created(j)
        /\ i < j
        /\ ~infoItems[i].isActive
        /\ infoItems[j].isActive
        /\ \E e \in events : e[1] = "InfoDeactivated" /\ e[2] = i

\* The revert reason of the buying call of the deployed contract:
\* requestPurchase in the escrow contract, purchaseInfo in the purchase
\* contracts.
BuyRevert(sender, infoId, value) ==
    CASE variant = "escrow" -> requestPurchaseRevert(sender, infoId, value)
      [] variant = "plain" -> purchaseInfoRevert_plain(sender, infoId, value)
      [] variant = "enc" -> purchaseInfoRevert_enc(sender, infoId, value)

\* C16: for a deactivated item every requestPurchase / purchaseInfo, by any
\* caller with any payment, reverts with "Info is not active"; no step gives
\* the item a new pending request, a new entry of its buyer list or a new
\* purchase.
C16_InactiveItemRejectsBuyers ==
    /\ [](\A i \in InfoIds :
            Created(i) /\ ~infoItems[i].isActive =>
                \A s \in Users, v \in CheckValues :
                    BuyRevert(s, i, v) = "Info is not active")
    /\ [][\A i \in InfoIds :
            Created(i) /\ ~infoItems[i].isActive =>
                /\ purchaseRequestsList'[i] = purchaseRequestsList[i]
                /\ \A b \in Users : purchaseRequests'[i][b].isPending =>
                                         purchaseRequests[i][b].isPending
                /\ variant # "escrow" =>
                       infoItems'[i].hasPurchased = infoItems[i].hasPurchased]_vars

C16_Witness ==
    \E i \in InfoIds, a \in Users, b \in Users :
        /\ Created(i) /\ ~infoItems[i].isActive
        /\ a # b
        /\ IF variant = "escrow" THEN isPending(i, a)
                                ELSE a \in infoItems[i].hasPurchased
        /\ BuyRevert(b, i, 51) = "Info is not active"
        /\ BuyRevert(a, i, 51) = "Info is not active"
        /\ ethBalance[b] = InitialFunds

\* The owner of an item: seller in the escrow contract, owner in the
\* purchase contracts.
ItemOwner(infoId) ==
    IF variant = "escrow" THEN infoItems[infoId].seller ELSE infoItems[infoId].owner

\* The revert reason of deactivateInfo in the deployed contract.
DeactivateRevert(sender, infoId) ==
    CASE variant = "escrow" -> deactivateInfoRevert(sender, infoId)
      [] variant = "plain" -> deactivateInfoRevert_plain(sender, infoId)
      [] variant = "enc" -> deactivateInfoRevert_enc(sender, infoId)

\* C17: in every contract deactivateInfo of a created item reverts when the
\* owner calls it on an item that is already inactive, and reverts with the
\* contract's authorization error when anyone else calls it.
C17_DeactivateNeedsActiveItem ==
    \A i \in InfoIds, s \in Users :
        Created(i) =>
            /\ s = ItemOwner(i) /\ ~infoItems[i].isActive =>
                   DeactivateRevert(s, i) # OK
            /\ s # ItemOwner(i) =>
                   DeactivateRevert(s, i) \in {"Only info seller can call this function",
                                               "Only owner can deactivate"}

\* C18: in the escrow contract and the plaintext-price contract every
\* requestPurchase / purchaseInfo that pays less than the item's current
\* price reverts, and it reverts with "Insufficient payment" when the call
\* passes the checks that come before the payment check (the item is
\* active, the caller is not its owner and, in the plaintext-price contract,
\* has not purchased it yet).
C18_UnderpaymentReverts ==
    variant \in {"escrow", "plain"} =>
        \A i \in InfoIds, s \in Users, v \in CheckValues :
            Created(i) /\ v < infoItems[i].price =>
                /\ BuyRevert(s, i, v) # OK
                /\ (/\ infoItems[i].isActive
                    /\ s # ItemOwner(i)
                    /\ variant = "plain" => s \notin infoItems[i].hasPurchased)
                   => BuyRevert(s, i, v) = "Insufficient payment"

C18_Witness ==
    \E i \in InfoIds, s \in Users, a \in Users :
        /\ Created(i)
        /\ variant = "plain"
        /\ infoItems[i].price \in NewPrices
        /\ a \in infoItems[i].hasPurchased
        /\ BuyRevert(s, i, 50) = "Insufficient payment"
        /\ BuyRevert(s, i, 51) = OK
        /\ ethBalance[s] = InitialFunds

\* C19: in every contract each requestPurchase / purchaseInfo of an item by
\* its owner reverts whatever the payment, with "Cannot purchase own info"
\* resp. "Cannot purchase your own info" while the item is active, and there
\* is never a request or purchase record of the owner for the own item.
C19_OwnerNeverBuysOwnItem ==
    \A i \in InfoIds :
        Created(i) =>
            LET o == ItemOwner(i) IN
            /\ \A v \in CheckValues :
                  /\ BuyRevert(o, i, v) # OK
                  /\ infoItems[i].isActive =>
                         BuyRevert(o, i, v) =
                             IF variant = "escrow" THEN "Cannot purchase own info"
                                                   ELSE "Cannot purchase your own info"
            /\ IF variant = "escrow"
               THEN /\ purchaseRequests[i][o] = EmptyRequest
                    /\ \A k \in 1..Len(purchaseRequestsList[i]) :
                          purchaseRequestsList[i][k] # o
                    /\ \A k \in 1..Len(buyerRequests[o]) : buyerRequests[o][k] # i
               ELSE /\ o \notin infoItems[i].hasPurchased
                    /\ \A k \in 1..Len(userPurchases[o]) : userPurchases[o][k] # i

C19_Witness ==
    \E i \in InfoIds, j \in InfoIds :
        /\ Created(i) /\ Created(j)
        /\ ItemOwner(i) # ItemOwner(j)
        /\ infoItems[i].isActive
        /\ BuyRevert(ItemOwner(i), i, 51) # OK
        /\ BuyRevert(ItemOwner(i), j, 51) # OK
        /\ IF variant = "escrow" THEN isPending(j, ItemOwner(i))
                                ELSE ItemOwner(i) \in infoItems[j].hasPurchased

\* C20: in the escrow contract grantAccess and denyAccess called by anyone
\* but the item's seller (the buyer and the platform owner included) revert
\* with "Only info seller can call this function"; a pending request stops
\* being pending, and the contract pays out of the escrow of an item's
\* requests, only in a grantAccess or denyAccess step of the item's seller.
C20_OnlySellerResolves ==
    /\ [](\A i \in InfoIds, s \in Users, b \in Users :
            s # infoItems[i].seller =>
                /\ grantAccessRevert(s, i, b) = "Only info seller can call this function"
                /\ denyAccessRevert(s, i, b) = "Only info seller can call this function")
    /\ [][/\ \A i \in InfoIds, b \in Users :
               isPending(i, b) /\ ~purchaseRequests'[i][b].isPending =>
                   \/ grantAccess(infoItems[i].seller, i, b)
                   \/ denyAccess(infoItems[i].seller, i, b)
          /\ ethBalance'[THIS] < ethBalance[THIS] =>
                 \/ \E i \in InfoIds, b \in Users :
                        \/ grantAccess(infoItems[i].seller, i, b)
                        \/ denyAccess(infoItems[i].seller, i, b)
                 \/ withdrawPlatformFees(owner)]_vars

C20_Witness ==
    \E i \in InfoIds, b \in Users :
        /\ isPending(i, b)
        /\ infoItems[i].seller \notin {b, owner}
        /\ ethBalance[THIS] = paid[i][b]
        /\ grantAccessRevert(b, i, b) = "Only info seller can call this function"
        /\ denyAccessRevert(b, i, b) = "Only info seller can call this function"
        /\ grantAccessRevert(owner, i, b) = "Only info seller can call this function"
        /\ denyAccessRevert(owner, i, b) = "Only info seller can call this function"
        /\ grantAccessRevert(infoItems[i].seller, i, b) = OK

\* C21: in the escrow contract the seller's grantAccess and denyAccess for
\* a buyer without a pending request for the item (never requested, already
\* approved or already denied) revert with "No pending request from this
\* buyer".
C21_ResolveNeedsPendingRequest ==
    variant = "escrow" =>
        \A i \in InfoIds, b \in Users :
            Created(i) /\ ~isPending(i, b) =>
                /\ grantAccessRevert(infoItems[i].seller, i, b)
                       = "No pending request from this buyer"
                /\ denyAccessRevert(infoItems[i].seller, i, b)
                       = "No pending request from this buyer"

C21_Witness ==
    \E i \in InfoIds, a \in Users, b \in Users :
        /\ isApproved(i, a)
        /\ Denied(i, b) /\ ~isPending(i, b) /\ ~isApproved(i, b)
        /\ purchaseRequests[i][infoItems[i].seller] = EmptyRequest
        /\ \A c \in Users :
              grantAccessRevert(infoItems[i].seller, i, c)
                  = "No pending request from this buyer"
        /\ ethBalance[THIS] > 0

\* The creation events emitted so far (InfoUploaded / InfoCreated).
CreationEvents == {e \in events : e[1] \in {"InfoUploaded", "InfoCreated"}}

\* The creator's item list: sellerInfos in the escrow contract, userInfoItems
\* in the purchase contracts.
CreatorList(a) == IF variant = "escrow" THEN sellerInfos[a] ELSE userInfoItems[a]

\* C22: item ids are sequential from 1: nextInfoId is 1 plus the number of
\* successful creations (getTotalInfoCount = nextInfoId - 1), the creations
\* have exactly the ids 1 .. nextInfoId - 1, one creation and one creator per
\* id, the ids from nextInfoId on are unused, and each creator's item list
\* holds exactly that creator's ids in increasing (creation) order.
C22_SequentialIds ==
    /\ nextInfoId >= 1
    /\ getTotalInfoCount = Cardinality(CreationEvents)
    /\ {e[2] : e \in CreationEvents} = 1..(nextInfoId - 1)
    /\ \A e \in CreationEvents : e[3] = ItemOwner(e[2])
    /\ \A i \in InfoIds : ~Created(i) => ItemOwner(i) = ZeroAddress
    /\ \A a \in Users :
          LET l == CreatorList(a) IN
          /\ \A k \in 1..Len(l) : \A m \in 1..Len(l) : k < m => l[k] < l[m]
          /\ {l[k] : k \in 1..Len(l)} = {i \in InfoIds : Created(i) /\ ItemOwner(i) = a}

C22_Witness ==
    \E a \in Users :
        /\ nextInfoId = 3
        /\ CreatorList(a) = <<1, 2>>
        /\ ~infoItems[1].isActive

\* The revert reason of the creating call of the deployed contract:
\* uploadInfo in the escrow contract (which has no title and content),
\* createInfo in the purchase contracts.
CreateRevert(sender, title, info, price) ==
    CASE variant = "escrow" -> uploadInfoRevert(sender, price)
      [] variant = "plain" -> createInfoRevert_plain(sender, title, info, price)
      [] variant = "enc" -> createInfoRevert_enc(sender, title, info, price)

\* C23: creating an item reverts when the price is 0 (all three contracts)
\* and when the title or the content is empty (purchase contracts).
C23_CreateValidatesInput ==
    \A s \in Users, t \in Titles \cup {""}, c \in Infos \cup {""}, p \in CheckValues :
        \/ p = 0
        \/ variant # "escrow" /\ (t = "" \/ c = "")
        => CreateRevert(s, t, c, p) # OK

\* The fields of an item that are fixed at creation.
FixedFields(item) ==
    IF variant = "escrow"
    THEN <<item.seller, item.encryptedInfo, item.createdAt>>
    ELSE <<item.owner, item.title, item.info, item.encryptedOwner, item.createdAt>>

\* C24: no step changes the owner / seller, title, content, encrypted
\* handle or createdAt of a created item; its isActive changes only in a
\* deactivateInfo step of its owner; its price changes only in an
\* updatePrice step of its owner in a purchase contract (never in the
\* escrow contract).
C24_ItemFieldsImmutable ==
    [][\A i \in InfoIds :
          Created(i) =>
              /\ FixedFields(infoItems'[i]) = FixedFields(infoItems[i])
              /\ infoItems'[i].isActive # infoItems[i].isActive =>
                     \/ deactivateInfo(ItemOwner(i), i)
                     \/ deactivateInfo_plain(ItemOwner(i), i)
                     \/ deactivateInfo_enc(ItemOwner(i), i)
              /\ infoItems'[i].price # infoItems[i].price =>
                     \E p \in NewPrices : \/ updatePrice_plain(ItemOwner(i), i, p)
                                           \/ updatePrice_enc(ItemOwner(i), i, p)]_vars

C24_Witness ==
    \E i \in InfoIds, b \in Users :
        /\ Created(i)
        /\ variant = "plain"
        /\ ~infoItems[i].isActive
        /\ infoItems[i].price \in NewPrices
        /\ b \in infoItems[i].hasAccess \ {infoItems[i].owner}
        /\ FixedFields(infoItems[i]) \in
               {<<o, t, c, i, ts>> : o \in Sellers, t \in Titles, c \in Infos,
                                     ts \in Timestamps}

\* C25: in the plaintext-price contract updatePrice of a created item
\* succeeds exactly when the caller is the owner, the item is active and the
\* new price is > 0, and reverts otherwise; after a successful updatePrice
\* getPrice returns the new price.
C25_UpdatePriceGuarded ==
    /\ [](\A i \in InfoIds, s \in Users, p \in CheckValues :
            Created(i) =>
                /\ updatePriceRevert_plain(s, i, p) = OK <=>
                       (s = infoItems[i].owner /\ infoItems[i].isActive /\ p > 0)
                /\ s # infoItems[i].owner =>
                       updatePriceRevert_plain(s, i, p) = "Only owner can update price"
                /\ s = infoItems[i].owner /\ ~infoItems[i].isActive =>
                       updatePriceRevert_plain(s, i, p) = "Info is not active"
                /\ s = infoItems[i].owner /\ infoItems[i].isActive /\ p = 0 =>
                       updatePriceRevert_plain(s, i, p) = "Price must be greater than 0")
    /\ [][\A i \in InfoIds, s \in Users, p \in NewPrices :
            updatePrice_plain(s, i, p) =>
                /\ (getPriceRevert_plain(s, i) = OK)'
                /\ (getPrice_plain(s, i) = p)']_vars

C25_Witness ==
    \E i \in InfoIds, b \in Users :
        /\ Created(i)
        /\ b # infoItems[i].owner
        /\ getPrice_plain(b, i) \in NewPrices
        /\ ~infoItems[i].isActive
        /\ updatePriceRevert_plain(infoItems[i].owner, i, 52) = "Info is not active"
        /\ updatePriceRevert_plain(b, i, 52) = "Only owner can update price"

\* C26: in the escrow contract getPendingRequests of a created item, called
\* by the seller, returns exactly the buyers whose request for the item is
\* pending, each buyer once; called by anyone else it reverts.
C26_PendingListExact ==
    variant = "escrow" =>
        \A i \in InfoIds :
            Created(i) =>
                LET seller == infoItems[i].seller
                    r == getPendingRequests(seller, i)
                IN
                /\ getPendingRequestsRevert(seller, i) = OK
                /\ {r[k] : k \in 1..Len(r)} = {b \in Users : isPending(i, b)}
                /\ Len(r) = Cardinality({b \in Users : isPending(i, b)})
                /\ \A s \in Users \ {seller} : getPendingRequestsRevert(s, i) # OK

\* The revert reason of grantAccess in the deployed purchase contract.
GrantRevert(sender, infoId, buyer) ==
    IF variant = "plain" THEN grantAccessRevert_plain(sender, infoId, buyer)
                         ELSE grantAccessRevert_enc(sender, infoId, buyer)

\* C27: in the purchase contracts whoever has hasAccess of a created item is
\* its owner or has purchased it, and a buyer has it only after an
\* AccessGranted (a purchase alone does not set it); grantAccess succeeds
\* exactly for the owner as caller and a buyer who has purchased and has no
\* access yet, and for a buyer who already has access the owner's
\* grantAccess reverts with "Access already granted".
C27_AccessImpliesPurchase ==
    variant \in {"plain", "enc"} =>
        \A i \in InfoIds :
            Created(i) =>
                LET item == infoItems[i] IN
                /\ item.hasAccess \subseteq {item.owner} \cup item.hasPurchased
                /\ \A b \in item.hasAccess \ {item.owner} :
                      <<"AccessGranted", i, b>> \in events
                /\ \A s \in Users, b \in Users :
                      /\ GrantRevert(s, i, b) = OK <=>
                             /\ s = item.owner
                             /\ b \in item.hasPurchased
                             /\ b \notin item.hasAccess
                      /\ s = item.owner /\ b \in item.hasPurchased /\ b \in item.hasAccess
                             => GrantRevert(s, i, b) = "Access already granted"

C27_Witness ==
    /\ variant \in {"plain", "enc"}
    /\ \E i \in InfoIds, a \in Users, b \in Users :
          /\ Created(i)
          /\ b \in infoItems[i].hasPurchased \cap infoItems[i].hasAccess
          /\ GrantRevert(infoItems[i].owner, i, b) = "Access already granted"
          /\ a \in infoItems[i].hasPurchased \ infoItems[i].hasAccess
          /\ GrantRevert(infoItems[i].owner, i, a) = OK

\* C28: in the purchase contracts a buyer purchases an item at most once:
\* for a buyer who has purchased the item every purchaseInfo reverts, with
\* "Already purchased" while the item is active; userPurchases[buyer] only
\* grows, by appending the id of an item the buyer had not purchased, in a
\* purchaseInfo step of that buyer; it holds exactly the items the buyer has
\* purchased, each once.
C28_PurchaseAtMostOnce ==
    /\ [](\A b \in Users :
            LET l == userPurchases[b] IN
            /\ {l[k] : k \in 1..Len(l)}
                   = {i \in InfoIds : Created(i) /\ b \in infoItems[i].hasPurchased}
            /\ \A k \in 1..Len(l) : \A m \in 1..Len(l) : k # m => l[k] # l[m]
            /\ \A i \in InfoIds, v \in CheckValues :
                  Created(i) /\ b \in infoItems[i].hasPurchased =>
                      /\ BuyRevert(b, i, v) # OK
                      /\ infoItems[i].isActive =>
                             BuyRevert(b, i, v) = "Already purchased")
    /\ [][\A b \in Users :
            userPurchases'[b] # userPurchases[b] =>
                \E i \in InfoIds :
                    /\ userPurchases'[b] = Append(userPurchases[b], i)
                    /\ b \notin infoItems[i].hasPurchased
                    /\ \E v \in MsgValues \cup MsgValuesEnc :
                          purchaseInfo_plain(b, i, v) \/ purchaseInfo_enc(b, i, v)]_vars

C28_Witness ==
    \E b \in Users :
        /\ userPurchases[b] = <<2, 1>>
        /\ BuyRevert(b, 1, 51) = "Already purchased"
        /\ BuyRevert(b, 2, 51) = "Already purchased"

\* The step approves / denies the pending request of (infoId, buyer).
Approves(infoId, buyer) ==
    isPending(infoId, buyer) /\ purchaseRequests'[infoId][buyer].isApproved

Denies(infoId, buyer) ==
    /\ isPending(infoId, buyer)
    /\ ~purchaseRequests'[infoId][buyer].isPending
    /\ ~purchaseRequests'[infoId][buyer].isApproved

\* C29: grantAccess, denyAccess and withdrawPlatformFees are all-or-nothing.
\* While the FHE library reverts or the recipient rejects ETH the call
\* reverts; and no step applies a part of one of these transitions: a step
\* that approves a request, puts the buyer on the handle's access-control
\* list, emits AccessGranted or raises platformBalance is a whole grantAccess
\* (all guards passed, request approved, fee booked, seller paid); a step
\* that denies a request or emits AccessDenied is a whole denyAccess (buyer
\* refunded); a step that lowers platformBalance is a whole
\* withdrawPlatformFees; ETH leaves the contract in no other step.
C29_AllOrNothing ==
    /\ [](\A i \in InfoIds, b \in Users :
            isPending(i, b) =>
                LET seller == infoItems[i].seller IN
                /\ fheDown => grantAccessRevert(seller, i, b) = "FHE call failed"
                /\ ~fheDown /\ seller \in rejectsEth =>
                       grantAccessRevert(seller, i, b) = "transfer failed"
                /\ b \in rejectsEth => denyAccessRevert(seller, i, b) = "transfer failed")
    /\ [](platformBalance > 0 /\ owner \in rejectsEth =>
             withdrawPlatformFeesRevert(owner) = "transfer failed")
    /\ [][/\ \A i \in InfoIds, b \in Users :
               LET seller == infoItems[i].seller
                   price == infoItems[i].price
               IN
               /\ \/ Approves(i, b)
                  \/ Created(i) /\ b \notin acl[i] /\ b \in acl'[i]
                  \/ <<"AccessGranted", i, b, seller>> \in events' \ events
                  => /\ grantAccessRevert(seller, i, b) = OK
                     /\ Approves(i, b)
                     /\ ~purchaseRequests'[i][b].isPending
                     /\ b \in acl'[i]
                     /\ platformBalance' = platformBalance + Fee(price)
                     /\ ethBalance' = Transfer(ethBalance, THIS, seller, SellerAmount(price))
               /\ \/ Denies(i, b)
                  \/ <<"AccessDenied", i, b, seller>> \in events' \ events
                  => /\ denyAccessRevert(seller, i, b) = OK
                     /\ Denies(i, b)
                     /\ platformBalance' = platformBalance
                     /\ ethBalance' = Transfer(ethBalance, THIS, b, Refund(i, b))
          /\ platformBalance' > platformBalance =>
                 \E i \in InfoIds, b \in Users : Approves(i, b)
          /\ platformBalance' < platformBalance =>
                 /\ withdrawPlatformFeesRevert(owner) = OK
                 /\ platformBalance' = 0
                 /\ ethBalance' = Transfer(ethBalance, THIS, owner, platformBalance)
                 /\ purchaseRequests' = purchaseRequests
          /\ ethBalance'[THIS] < ethBalance[THIS] =>
                 \/ \E i \in InfoIds, b \in Users : Approves(i, b) \/ Denies(i, b)
                 \/ platformBalance' < platformBalance]_vars

C29_Witness ==
    \E i \in InfoIds, a \in Users, b \in Users :
        /\ isApproved(i, a)
        /\ isPending(i, b)
        /\ b \in rejectsEth
        /\ fheDown
        /\ denyAccessRevert(infoItems[i].seller, i, b) = "transfer failed"
        /\ grantAccessRevert(infoItems[i].seller, i, b) = "FHE call failed"
        /\ platformBalance > 0
        /\ ethBalance[THIS] = platformBalance + paid[i][b]

\* The payments of the pending requests in S (pairs <<infoId, buyer>>).
RECURSIVE SumPaid(_)
SumPaid(S) ==
    IF S = {} THEN 0
    ELSE LET x == CHOOSE y \in S : TRUE IN paid[x[1]][x[2]] + SumPaid(S \ {x})

\* The ETH the contract holds in escrow for the pending requests.
EscrowHeld == SumPaid({x \in InfoIds \X Users : isPending(x[1], x[2])})

\* C30: the escrow contract has no cancellation: a step that is not the
\* seller's grantAccess or denyAccess for the pair leaves a pending request
\* pending with its payment recorded, and after every step the contract
\* still holds the payments of all pending requests on top of the platform
\* fees.
C30_NoCancellation ==
    /\ [](ethBalance[THIS] >= platformBalance + EscrowHeld)
    /\ [][\A i \in InfoIds, b \in Users :
            /\ isPending(i, b)
            /\ ~grantAccess(infoItems[i].seller, i, b)
            /\ ~denyAccess(infoItems[i].seller, i, b)
            => /\ purchaseRequests'[i][b] = purchaseRequests[i][b]
               /\ paid'[i][b] = paid[i][b]
               /\ ethBalance'[THIS] >= platformBalance' + EscrowHeld']_vars

C30_Witness ==
    \E i \in InfoIds, a \in Users, b \in Users :
        /\ isPending(i, b)
        /\ isApproved(i, a)
        /\ ~infoItems[i].isActive
        /\ platformBalance = 0
        /\ EscrowHeld = paid[i][b]
        /\ ethBalance[THIS] = paid[i][b]
        /\ \E e \in events : e[1] = "InfoDeactivated" /\ e[2] = i

\* C31: in the encrypted-price contract purchaseInfo by a non-owner on an
\* existing active item the caller has not purchased succeeds whatever
\* msg.value is (zero included), and the step in which a caller becomes a
\* purchaser sets hasPurchased for the caller, leaves the caller's hasAccess
\* false and appends the item to the caller's userPurchases.
C31_EncPurchaseAnyValue ==
    /\ [](variant = "enc" =>
            \A s \in Users, i \in InfoIds, v \in CheckValues :
                /\ validInfoId(i)
                /\ infoItems[i].isActive
                /\ infoItems[i].owner # s
                /\ s \notin infoItems[i].hasPurchased
                => purchaseInfoRevert_enc(s, i, v) = OK)
    /\ [][variant = "enc" =>
            \A s \in Users, i \in InfoIds :
                s \notin infoItems[i].hasPurchased /\ s \in infoItems'[i].hasPurchased
                => /\ \E v \in MsgValuesEnc : purchaseInfo_enc(s, i, v)
                   /\ s \notin infoItems'[i].hasAccess
                   /\ userPurchases'[s] = Append(userPurchases[s], i)]_vars

\* A buyer has purchased without paying and holds no access.
C31_Witness ==
    /\ variant = "enc"
    /\ \E s \in Users, i \in InfoIds :
        /\ s \in infoItems[i].hasPurchased
        /\ s \notin infoItems[i].hasAccess
        /\ userPurchases[s] = <<i>>
        /\ ethBalance[s] = InitialFunds
        /\ ethBalance[THIS] = 0

RECURSIVE SumPrices(_)
SumPrices(S) ==
    IF S = {} THEN 0
    ELSE LET x == CHOOSE y \in S : TRUE IN infoItems[x[1]].price + SumPrices(S \ {x})

PendingPrices == SumPrices({x \in InfoIds \X Users : isPending(x[1], x[2])})

\* C33: the escrow contract is solvent. Its ETH balance is at least
\* platformBalance plus the prices of the items of all pending requests;
\* hence the seller's share and the refund of every pending request and the
\* platform fees are covered (grantAccess, denyAccess and
\* withdrawPlatformFees do not fail for lack of funds), and what remains
\* after the fees are withdrawn still covers every pending request.
C33_EscrowSolvent ==
    variant = "escrow" =>
        /\ ethBalance[THIS] >= platformBalance + PendingPrices
        /\ ethBalance[THIS] - platformBalance >= PendingPrices
        /\ platformBalance > 0 => withdrawPlatformFeesRevert(owner) = OK
        /\ \A i \in InfoIds, b \in Users :
               isPending(i, b) =>
                   /\ ethBalance[THIS] >= SellerAmount(infoItems[i].price)
                   /\ ethBalance[THIS] >= Refund(i, b)
                   /\ grantAccessRevert(infoItems[i].seller, i, b) = OK
                   /\ denyAccessRevert(infoItems[i].seller, i, b) = OK

\* A request is pending while fees are waiting to be withdrawn, and the
\* contract holds exactly the fees and the price.
C33_Witness ==
    /\ variant = "escrow"
    /\ platformBalance > 0
    /\ Cardinality({x \in InfoIds \X Users : isPending(x[1], x[2])}) = 1
    /\ PendingPrices = 50
    /\ ethBalance[THIS] = platformBalance + PendingPrices

\* C34: while a request is pending the seller's grantAccess and denyAccess
\* for it both succeed (every recipient accepts ETH here); the step that
\* ends a pending request either approves it or denies it and pays the
\* refund to the buyer; and with weakly fair resolving by the seller every
\* pending request is eventually resolved.
C34_PendingEventuallyResolved ==
    /\ [](\A i \in InfoIds, b \in Users :
            isPending(i, b) =>
                /\ grantAccessRevert(infoItems[i].seller, i, b) = OK
                /\ denyAccessRevert(infoItems[i].seller, i, b) = OK)
    /\ [][\A i \in InfoIds, b \in Users :
            isPending(i, b) /\ ~isPending(i, b)'
            => \/ Approves(i, b)
               \/ /\ Denies(i, b)
                  /\ ethBalance'[b] = ethBalance[b] + Refund(i, b)]_vars
    /\ \A i \in InfoIds, b \in Users :
           isPending(i, b) ~> (Resolved(i, b) /\ (isApproved(i, b) \/ Denied(i, b)))

\* One buyer of an item was approved and another was denied and holds the
\* refund again.
C34_Witness ==
    \E i \in InfoIds, a \in Users, b \in Users :
        /\ Resolved(i, a) /\ isApproved(i, a)
        /\ Resolved(i, b) /\ ~isApproved(i, b) /\ Denied(i, b)
        /\ paid[i][b] = infoItems[i].price
        /\ ethBalance[b] = InitialFunds

\* C35: deactivation does not block the resolution of what was requested
\* before it. For every deactivated item: in the escrow contract the
\* seller's grantAccess and denyAccess succeed for each request that is
\* still pending; in the purchase contracts the owner's grantAccess succeeds
\* for each buyer who has purchased and has no access yet.
C35_DeactivationKeepsResolution ==
    \A i \in InfoIds :
        Created(i) /\ ~infoItems[i].isActive =>
            \A b \in Users :
                IF variant = "escrow"
                THEN isPending(i, b) =>
                         /\ grantAccessRevert(ItemOwner(i), i, b) = OK
                         /\ denyAccessRevert(ItemOwner(i), i, b) = OK
                ELSE b \in infoItems[i].hasPurchased \ infoItems[i].hasAccess =>
                         GrantRevert(ItemOwner(i), i, b) = OK

\* A deactivated item of the escrow contract with a request still pending
\* and its payment in the contract.
C35_Witness ==
    /\ variant = "escrow"
    /\ \E i \in InfoIds, b \in Users :
        /\ Created(i)
        /\ ~infoItems[i].isActive
        /\ <<"InfoDeactivated", i, ItemOwner(i)>> \in events
        /\ isPending(i, b)
        /\ ethBalance[THIS] >= paid[i][b]
        /\ ethBalance[THIS] = 51

\* C36: grantAccess, denyAccess and withdrawPlatformFees update the state
\* before they send ETH. In the state the recipient of the transfer runs in
\* (the state after the step that suspends the call) the request is already
\* resolved, approved with the fee booked for grantAccess, or platformBalance
\* is already zero, so grantAccess and denyAccess for the same request and
\* withdrawPlatformFees revert there; ETH leaves the contract only in such a
\* step, in the amount of that one request or of the fees; and the contract
\* stays solvent in every state, those in which a recipient runs included.
C36_UpdatesBeforeTransfer ==
    /\ [](ethBalance[THIS] >= platformBalance + PendingPrices)
    /\ [][/\ \A s \in Users, i \in InfoIds, b \in Users :
               /\ Len(callStack') > Len(callStack)
               /\ callStack'[Len(callStack')].sender = s
               /\ callStack'[Len(callStack')].infoId = i
               /\ callStack'[Len(callStack')].buyer = b
               => LET fn == callStack'[Len(callStack')].fn IN
                  /\ fn \in {"grantAccess", "denyAccess"}
                  /\ fn = "grantAccess" =>
                         /\ Approves(i, b)
                         /\ ~isPending(i, b)'
                         /\ platformBalance' = platformBalance + Fee(infoItems[i].price)
                         /\ ethBalance'[THIS] =
                                ethBalance[THIS] - SellerAmount(infoItems[i].price)
                  /\ fn = "denyAccess" =>
                         /\ Denies(i, b)
                         /\ ethBalance'[THIS] = ethBalance[THIS] - Refund(i, b)
                  /\ (grantAccessRevert(s, i, b) = "No pending request from this buyer")'
                  /\ (denyAccessRevert(s, i, b) = "No pending request from this buyer")'
          /\ \A s \in Users :
               /\ Len(callStack') > Len(callStack)
               /\ callStack'[Len(callStack')].sender = s
               /\ callStack'[Len(callStack')].fn = "withdrawPlatformFees"
               => /\ platformBalance' = 0
                  /\ ethBalance'[THIS] = ethBalance[THIS] - platformBalance
                  /\ (withdrawPlatformFeesRevert(s) = "No fees to withdraw")'
          /\ ethBalance'[THIS] < ethBalance[THIS] => Len(callStack') > Len(callStack)]_vars

\* The seller, who is also the platform owner, is being paid for a request
\* and has called withdrawPlatformFees from inside that transfer; a second
\* grantAccess for the request would revert.
C36_Witness ==
    /\ Len(callStack) = 2
    /\ callStack[1].fn = "grantAccess"
    /\ callStack[2].fn = "withdrawPlatformFees"
    /\ callStack[2].sender = callStack[1].sender
    /\ isApproved(callStack[1].infoId, callStack[1].buyer)
    /\ grantAccessRevert(callStack[1].sender, callStack[1].infoId, callStack[1].buyer)
           = "No pending request from this buyer"
    /\ platformBalance = 0
    /\ ethBalance[callStack[1].sender] = InitialFunds + 50

\* C37: in the plaintext-price contract a purchaseInfo that succeeds moves
\* the whole msg.value, overpayment included, from the buyer to the item's
\* owner in that step; the contract takes no fee and its ETH balance never
\* changes. While the owner rejects ETH a purchase that passes every other
\* check reverts with "Payment transfer failed", and nobody becomes a
\* purchaser of an item whose owner rejects ETH.
C37_PlainForwardsPayment ==
    /\ [](ethBalance[THIS] = 0)
    /\ [](\A s \in Users, i \in InfoIds, v \in CheckValues :
            /\ validInfoId(i)
            /\ infoItems[i].isActive
            /\ infoItems[i].owner # s
            /\ s \notin infoItems[i].hasPurchased
            /\ v >= infoItems[i].price
            /\ infoItems[i].owner \in rejectsEth
            => purchaseInfoRevert_plain(s, i, v) = "Payment transfer failed")
    /\ [](\A i \in InfoIds :
            infoItems[i].owner \in rejectsEth => infoItems[i].hasPurchased = {})
    /\ [][\A s \in Users, i \in InfoIds :
            s \notin infoItems[i].hasPurchased /\ s \in infoItems'[i].hasPurchased
            => /\ infoItems[i].owner \notin rejectsEth
               /\ \E v \in MsgValues :
                      /\ v >= infoItems[i].price
                      /\ purchaseInfoRevert_plain(s, i, v) = OK
                      /\ ethBalance'[s] = ethBalance[s] - v
                      /\ ethBalance'[infoItems[i].owner] =
                             ethBalance[infoItems[i].owner] + v
               /\ ethBalance'[THIS] = ethBalance[THIS]]_vars

\* A buyer has paid 51 for an item priced 50 and the owner holds all of it,
\* while a third account rejects ETH.
C37_Witness ==
    \E s \in Users, i \in InfoIds :
        /\ s \in infoItems[i].hasPurchased
        /\ infoItems[i].price = 50
        /\ ethBalance[s] = InitialFunds - 51
        /\ ethBalance[infoItems[i].owner] = InitialFunds + 51
        /\ ethBalance[THIS] = 0
        /\ rejectsEth # {}

\* The content consists of code units of at most 255.
Latin1(str) == \A k \in DOMAIN str : str[k] <= 255

\* C38: for a key address of "0x" and 40 hex digits and a content whose code
\* units are all at most 255, encryptByKey returns a value and decryptByKey
\* of that value with the same key returns the content; encryptByKey and
\* both copies of decryptByKey take the key byte of index i from the same
\* pair of hex digits, those at 2i mod 40 and (2i + 1) mod 40.
C38_XorRoundTrip ==
    variant = "frontend" =>
        /\ Len(keyAddress) = KeyLen + 2
        /\ Latin1(data) /\ encrypted # NotCalled => encrypted.state = "returned"
        /\ Latin1(data) /\ decrypted # NotCalled =>
               decrypted = Returned(data)
        /\ Latin1(data) =>
               /\ decryptByKey(encryptByKey(data, keyAddress).value, keyAddress).value
                      = data
               /\ decryptByKey_InfoList(encryptByKey(data, keyAddress).value,
                                        keyAddress).value = data
        /\ \A i \in 0..(Len(data) - 1) :
               LET keyBytes == slice2(keyAddress)
                   pair == parseInt16(At(keyBytes, (2 * i) % KeyLen),
                                      At(keyBytes, (2 * i + 1) % KeyLen))
               IN
               /\ keyChar_encryptByKey(keyBytes, i) = pair
               /\ keyChar_decryptByKey(keyBytes, i) = pair
               /\ keyChar_decryptByKey_InfoList(keyBytes, i) = pair

\* A content longer than the key's 20 bytes was obfuscated into something
\* else and read back.
C38_Witness ==
    /\ variant = "frontend"
    /\ Len(data) > KeyLen \div 2
    /\ Latin1(data)
    /\ encrypted.state = "returned"
    /\ Base64Decode(encrypted.value) # data
    /\ decrypted = Returned(data)

====
